---- MODULE Spec2Model ----
(***************************************************************************)
(* Model of the mockchain ledger of chain-impl-mockchain/src/ledger.rs:    *)
(* the immutable Ledger snapshot and the transition functions apply_block, *)
(* apply_transaction, apply_update, apply_certificate with their helpers   *)
(* internal_apply_transaction, input_utxo_verify and input_account_verify. *)
(* The collaborating stores (utxo, account, delegation, settings), the     *)
(* value arithmetic, the addresses and the signature primitive live in     *)
(* other files of the crate; they are modelled from their contracts.       *)
(***************************************************************************)
EXTENDS Integers, Sequences, FiniteSets, TLC

(***************************************************************************)
(* Bounds of the model.                                                    *)
(***************************************************************************)
\* Width of a Value in the model (the crate uses a u64; the width is scaled
\* down so that sums can be computed, overflow is detected the same way).
ValueBits == 4
\* Longest block (number of messages) the environment submits.
MaxBlock == 2
\* Number of successfully applied calls after which the environment stops.
MaxApplied == 3

MaxValue == (2 ^ ValueBits) - 1

(***************************************************************************)
(* Results.  A Rust Result is a record tagged Ok / Err; a panic (assert!,  *)
(* unimplemented!, unwrap on None) is a third outcome, tagged Panic.       *)
(***************************************************************************)
Ok(v) == [kind |-> "Ok", val |-> v]
Err(e) == [kind |-> "Err", error |-> e]
Panic(what) == [kind |-> "Panic", what |-> what]

\* ledger.rs Error: a variant name and its payload.
Error(tag, payload) == [tag |-> tag, payload |-> payload]

(***************************************************************************)
(* Value arithmetic (value.rs): Value::zero and the overflow-checked sum.  *)
(***************************************************************************)
ValueZero == 0

RECURSIVE SumFrom(_, _, _)
SumFrom(vs, i, acc) ==
    IF i > Len(vs) THEN Ok(acc)
    ELSE IF vs[i] > MaxValue - acc THEN Err("Overflow")
    ELSE SumFrom(vs, i + 1, acc + vs[i])

ValueSum(vs) == SumFrom(vs, 1, ValueZero)

(***************************************************************************)
(* Keys, signatures, addresses.                                            *)
(***************************************************************************)
Keys == {"k1", "k2"}
Discriminations == {"Test", "Production"}

\* A signature made with the secret key of `signer` over the message `msg`.
Sign(signer, msg) == [signer |-> signer, msg |-> msg]

\* Signature::verify(public key, message) -> Verification.
verify(sig, pk, msg) ==
    IF sig.signer = pk /\ sig.msg = msg THEN "Success" ELSE "Failed"

\* chain_addr::Address(discrimination, kind); kind is Single(pk),
\* Group(pk, group key) or Account(pk).
Address(d, k, pk) == [discrimination |-> d, kind |-> k, key |-> pk]
discrimination(a) == a.discrimination
kind(a) == a.kind
\* Address::public_key(): the spending key of a Single or Group address.
public_key(a) ==
    IF a.kind \in {"Single", "Group"} THEN [some |-> TRUE, key |-> a.key]
    ELSE [some |-> FALSE, key |-> a.key]

\* legacy::oldaddress_from_xpub(address, xpub): TRUE iff xpub derives address.
oldaddress_from_xpub(oldaddress, xpub) == oldaddress.key = xpub

(***************************************************************************)
(* Transactions (transaction.rs).                                          *)
(***************************************************************************)
Output(a, v) == [address |-> a, value |-> v]

\* Input { index_or_account, value, input_ptr }.
AccountIndex == 255
InputFromUtxo(tid, idx, v) == [index_or_account |-> idx, value |-> v, input_ptr |-> tid]
InputFromAccount(id, v) == [index_or_account |-> AccountIndex, value |-> v, input_ptr |-> [account |-> id]]

UtxoPointer(tid, idx, v) == [transaction_id |-> tid, output_index |-> idx, value |-> v]

\* Input::to_enum.
to_enum(input) ==
    IF input.index_or_account = AccountIndex
    THEN [tag |-> "AccountInput", account |-> input.input_ptr.account, value |-> input.value]
    ELSE [tag |-> "UtxoInput",
          utxo |-> UtxoPointer(input.input_ptr, input.index_or_account, input.value)]

Transaction(ins, outs, extra) == [inputs |-> ins, outputs |-> outs, extra |-> extra]
NoExtra == [cert |-> "NoExtra", key |-> "none"]

\* Transaction::hash(): the id is a collision-free digest of the inputs,
\* the outputs and the extra payload; the witnesses are not part of it.
TransactionHash(tx) == [inputs |-> tx.inputs, outputs |-> tx.outputs, extra |-> tx.extra]

AuthenticatedTransaction(tx, ws) == [transaction |-> tx, witnesses |-> ws]

\* Witness::Utxo(sig) | Witness::OldUtxo(xpub, sig) | Witness::Account(sig).
WitnessUtxo(sig) == [tag |-> "Utxo", xpub |-> "none", sig |-> sig]
WitnessOldUtxo(xpub, sig) == [tag |-> "OldUtxo", xpub |-> xpub, sig |-> sig]
WitnessAccount(sig) == [tag |-> "Account", xpub |-> "none", sig |-> sig]

\* TransactionIdSpendingCounter::new(transaction id, spending counter).
TransactionIdSpendingCounter(tid, sc) == <<tid, sc>>
\* The message a Utxo / OldUtxo witness signs: the transaction id alone.
TransactionIdMessage(tid) == <<tid>>

(***************************************************************************)
(* The UTXO store (utxo.rs): a persistent map (transaction id, index) ->   *)
(* output.                                                                 *)
(***************************************************************************)
EmptyMap == [k \in {} |-> 0]

Restrict(f, S) == [k \in S |-> f[k]]

UtxoNew == EmptyMap

\* utxo::Ledger::remove(tid, index) -> (store, output) | not found.
UtxoRemove(store, tid, idx) ==
    IF <<tid, idx>> \in DOMAIN store
    THEN Ok([store |-> Restrict(store, DOMAIN store \ {<<tid, idx>>}),
             output |-> store[<<tid, idx>>]])
    ELSE Err("NotFound")

\* utxo::Ledger::add(tid, [(index, output)]) -> store | duplicate.
UtxoAdd(store, tid, pairs) ==
    LET newKeys == {<<tid, pairs[j][1]>> : j \in 1..Len(pairs)}
    IN IF newKeys \cap DOMAIN store # {}
       THEN Err("AlreadyExists")
       ELSE Ok([k \in DOMAIN store \cup newKeys |->
                  IF k \in DOMAIN store THEN store[k]
                  ELSE LET j == CHOOSE j \in 1..Len(pairs) : pairs[j][1] = k[2]
                       IN pairs[j][2]])

(***************************************************************************)
(* The account store (account.rs): identifier -> (value, spending counter).*)
(***************************************************************************)
AccountNew == EmptyMap

\* account::Ledger::add_account(id, initial value).
AccountAddAccount(store, id, v) ==
    IF id \in DOMAIN store THEN Err("AlreadyExists")
    ELSE Ok([k \in DOMAIN store \cup {id} |->
               IF k = id THEN [value |-> v, counter |-> 0] ELSE store[k]])

\* account::Ledger::add_value(id, value).
AccountAddValue(store, id, v) ==
    IF id \notin DOMAIN store THEN Err("NonExistent")
    ELSE IF v > MaxValue - store[id].value THEN Err("ValueError")
    ELSE Ok([store EXCEPT ![id].value = @ + v])

\* account::Ledger::remove_value(id, value) -> (store, counter before).
AccountRemoveValue(store, id, v) ==
    IF id \notin DOMAIN store THEN Err("NonExistent")
    ELSE IF v > store[id].value THEN Err("NonEnoughFunds")
    ELSE Ok([store |-> [store EXCEPT ![id] = [value |-> @.value - v,
                                               counter |-> @.counter + 1]],
             counter |-> store[id].counter])

(***************************************************************************)
(* Delegation state (stake.rs) and settings (setting.rs).                  *)
(***************************************************************************)
DelegationNew == {}

\* DelegationState::apply(certificate) -> state | DelegationError.
DelegationApply(state, cert) ==
    CASE cert.cert = "StakeKeyRegistration" ->
            IF cert.key \in state THEN Err("StakeKeyRegistrationAlreadyExists")
            ELSE Ok(state \cup {cert.key})
      [] cert.cert = "StakeKeyDeregistration" ->
            IF cert.key \notin state THEN Err("StakeKeyDeregistrationDoesNotExist")
            ELSE Ok(state \ {cert.key})
      [] OTHER -> Ok(state)

SettingsNew == 0
\* Settings::apply(update proposal): a total function.
SettingsApply(settings, update) == update

(***************************************************************************)
(* The ledger (ledger.rs).                                                 *)
(***************************************************************************)
LedgerStaticParameters(d) == [discrimination |-> d]
LedgerParameters(allow) == [fees |-> <<0, 0, 0>>, allow_account_creation |-> allow]

\* Ledger::new.
LedgerNew(static_parameters, settings) ==
    [utxos |-> UtxoNew,
     oldutxos |-> UtxoNew,
     accounts |-> AccountNew,
     settings |-> settings,
     delegation |-> DelegationNew,
     static_params |-> static_parameters]

\* The transaction limits asserted by internal_apply_transaction.
MaxArity == 255

\* input_utxo_verify, Witness::OldUtxo arm: the checks made on the result r of
\* the removal of the legacy output.
OldUtxoWitnessChecks(ledger, transaction_id, utxo, witness, r) ==
    IF r.kind = "Err" THEN Err(Error("UtxoError", <<r.error>>))
    ELSE IF utxo.value # r.val.output.value
    THEN Err(Error("UtxoValueNotMatching", <<utxo.value, r.val.output.value>>))
    ELSE IF oldaddress_from_xpub(r.val.output.address, witness.xpub)
    THEN Err(Error("OldUtxoInvalidPublicKey", <<utxo, r.val.output, witness>>))
    ELSE IF verify(witness.sig, witness.xpub, TransactionIdMessage(transaction_id)) = "Failed"
    THEN Err(Error("OldUtxoInvalidSignature", <<utxo, r.val.output, witness>>))
    ELSE Ok([ledger EXCEPT !.oldutxos = r.val.store])

\* A signature check that accepts the witness and leaves the output in place.
UtxoSignatureCheckKeepEntry(ledger, transaction_id, utxo, witness, r, pk) ==
    IF ~pk.some THEN Panic("unwrap")
    ELSE IF verify(witness.sig, pk.key, TransactionIdMessage(transaction_id)) = "Failed"
    THEN Err(Error("UtxoInvalidSignature", <<utxo, r.val.output, witness>>))
    ELSE Ok(ledger)

\* input_utxo_verify, Witness::Utxo arm: the signature check under the public
\* key pk of the removed output; unwrap panics when there is none.
UtxoSignatureCheck(ledger, transaction_id, utxo, witness, r, pk) ==
    IF ~pk.some THEN Panic("unwrap")
    ELSE IF verify(witness.sig, pk.key, TransactionIdMessage(transaction_id)) = "Failed"
    THEN Err(Error("UtxoInvalidSignature", <<utxo, r.val.output, witness>>))
    ELSE Ok([ledger EXCEPT !.utxos = r.val.store])

\* input_utxo_verify, Witness::Utxo arm: the checks made on the result r of the
\* removal of the output.
UtxoWitnessChecks(ledger, transaction_id, utxo, witness, r) ==
    IF r.kind = "Err" THEN Err(Error("UtxoError", <<r.error>>))
    ELSE IF utxo.value # r.val.output.value
    THEN Err(Error("UtxoValueNotMatching", <<utxo.value, r.val.output.value>>))
    ELSE UtxoSignatureCheck(ledger, transaction_id, utxo, witness, r,
                            public_key(r.val.output.address))

\* A verification that reports a value mismatch as (recorded, claimed).
input_utxo_verifySwapped(ledger, transaction_id, utxo, witness) ==
    CASE witness.tag = "Account" -> Err(Error("ExpectingUtxoWitness", <<>>))
      [] witness.tag = "OldUtxo" ->
            OldUtxoWitnessChecks(ledger, transaction_id, utxo, witness,
                UtxoRemove(ledger.oldutxos, utxo.transaction_id, utxo.output_index))
      [] witness.tag = "Utxo" ->
            IF /\ <<utxo.transaction_id, utxo.output_index>> \in DOMAIN ledger.utxos
               /\ ledger.utxos[<<utxo.transaction_id, utxo.output_index>>].value # utxo.value
            THEN Err(Error("UtxoValueNotMatching",
                           <<ledger.utxos[<<utxo.transaction_id, utxo.output_index>>].value,
                             utxo.value>>))
            ELSE UtxoWitnessChecks(ledger, transaction_id, utxo, witness,
                    UtxoRemove(ledger.utxos, utxo.transaction_id, utxo.output_index))

input_utxo_verify(ledger, transaction_id, utxo, witness) ==
    CASE witness.tag = "Account" -> Err(Error("ExpectingUtxoWitness", <<>>))
      [] witness.tag = "OldUtxo" ->
            OldUtxoWitnessChecks(ledger, transaction_id, utxo, witness,
                UtxoRemove(ledger.oldutxos, utxo.transaction_id, utxo.output_index))
      [] witness.tag = "Utxo" ->
            UtxoWitnessChecks(ledger, transaction_id, utxo, witness,
                UtxoRemove(ledger.utxos, utxo.transaction_id, utxo.output_index))

\* Checks that accept a signature by the account over the transaction id
\* and any spending counter.
AccountWitnessChecksAnyCounter(transaction_id, account, witness, r) ==
    IF r.kind = "Err" THEN Err(Error("Account", <<r.error>>))
    ELSE CASE witness.tag = "OldUtxo" -> Err(Error("ExpectingAccountWitness", <<>>))
           [] witness.tag = "Utxo" -> Err(Error("ExpectingAccountWitness", <<>>))
           [] witness.tag = "Account" ->
                IF witness.sig.signer # account \/ witness.sig.msg[1] # transaction_id
                THEN Err(Error("AccountInvalidSignature", <<account, witness>>))
                ELSE Ok(r.val.store)

\* Checks that take a Utxo witness for an account input.
AccountWitnessChecksAnyKind(transaction_id, account, witness, r) ==
    IF r.kind = "Err" THEN Err(Error("Account", <<r.error>>))
    ELSE CASE witness.tag = "OldUtxo" -> Err(Error("ExpectingAccountWitness", <<>>))
           [] witness.tag = "Utxo" -> Ok(r.val.store)
           [] witness.tag = "Account" ->
                IF verify(witness.sig, account,
                          TransactionIdSpendingCounter(transaction_id, r.val.counter)) = "Failed"
                THEN Err(Error("AccountInvalidSignature", <<account, witness>>))
                ELSE Ok(r.val.store)

\* input_account_verify: the checks made on the result r of remove_value.
AccountWitnessChecks(transaction_id, account, witness, r) ==
    IF r.kind = "Err" THEN Err(Error("Account", <<r.error>>))
    ELSE CASE witness.tag = "OldUtxo" -> Err(Error("ExpectingAccountWitness", <<>>))
           [] witness.tag = "Utxo" -> Err(Error("ExpectingAccountWitness", <<>>))
           [] witness.tag = "Account" ->
                IF verify(witness.sig, account,
                          TransactionIdSpendingCounter(transaction_id, r.val.counter)) = "Failed"
                THEN Err(Error("AccountInvalidSignature", <<account, witness>>))
                ELSE Ok(r.val.store)

\* A verification that opens an empty account for an identifier that has none.
input_account_verifyCreateMissing(ledger, transaction_id, account, value, witness) ==
    AccountWitnessChecks(transaction_id, account, witness,
        IF account \in DOMAIN ledger
        THEN AccountRemoveValue(ledger, account, value)
        ELSE AccountRemoveValue(AccountAddAccount(ledger, account, ValueZero).val,
                                account, value))

input_account_verify(ledger, transaction_id, account, value, witness) ==
    AccountWitnessChecks(transaction_id, account, witness,
                         AccountRemoveValue(ledger, account, value))

\* A failed verification of an account input that is passed over.
WithAccountsIgnoreError(ledger, a) ==
    IF a.kind = "Ok" THEN Ok([ledger EXCEPT !.accounts = a.val]) ELSE Ok(ledger)

\* ledger.accounts = input_account_verify(ledger.accounts, ...)?
WithAccounts(ledger, a) ==
    IF a.kind = "Ok" THEN Ok([ledger EXCEPT !.accounts = a.val]) ELSE a

\* The body of the loop over the inputs: the match on input.to_enum().
VerifyInput(ledger, transaction_id, e, witness) ==
    IF e.tag = "UtxoInput"
    THEN input_utxo_verify(ledger, transaction_id, e.utxo, witness)
    ELSE WithAccounts(ledger, input_account_verify(ledger.accounts, transaction_id,
                                                   e.account, e.value, witness))

\* Step 2 of internal_apply_transaction: the loop over inputs.iter().zip(witnesses),
\* from the pair i on; VerifyRest goes on after the result r of pair i.
RECURSIVE VerifyInputs(_, _, _, _, _)
VerifyRest(r, transaction_id, inputs, witnesses, i) ==
    IF r.kind = "Ok" THEN VerifyInputs(r.val, transaction_id, inputs, witnesses, i + 1)
    ELSE r

VerifyInputs(ledger, transaction_id, inputs, witnesses, i) ==
    IF i > Len(inputs) \/ i > Len(witnesses) THEN Ok(ledger)
    ELSE VerifyRest(VerifyInput(ledger, transaction_id, to_enum(inputs[i]), witnesses[i]),
                    transaction_id, inputs, witnesses, i)

InputValues(inputs) == [i \in 1..Len(inputs) |-> inputs[i].value]
OutputValues(outputs) == [i \in 1..Len(outputs) |-> outputs[i].value]

\* Step 3 of internal_apply_transaction: the two totals that are compared.
TotalInput(inputs, outputs) == ValueSum(InputValues(inputs))
TotalOutput(inputs, outputs) == ValueSum(InputValues(inputs))

\* The credit of a pay-to-account output: the result c of add_account.
CreatedAccount(c) ==
    IF c.kind = "Ok" THEN c ELSE Err(Error("Account", <<c.error>>))

\* A credit that creates a missing account whatever the parameters say.
CreditResultAlwaysCreate(accounts, dyn_params, account, value, r) ==
    IF r.kind = "Ok" THEN r
    ELSE IF r.error = "NonExistent"
    THEN CreatedAccount(AccountAddAccount(accounts, account, value))
    ELSE Err(Error("Account", <<r.error>>))

\* The credit of a pay-to-account output: the match on the result r of add_value.
CreditResult(accounts, dyn_params, account, value, r) ==
    IF r.kind = "Ok" THEN r
    ELSE IF r.error = "NonExistent" /\ dyn_params.allow_account_creation
    THEN CreatedAccount(AccountAddAccount(accounts, account, value))
    ELSE Err(Error("Account", <<r.error>>))

CreditAccount(accounts, dyn_params, account, value) ==
    CreditResult(accounts, dyn_params, account, value,
                 AccountAddValue(accounts, account, value))

\* Step 4 of internal_apply_transaction: the loop over outputs.iter().enumerate(),
\* from the output i on; AfterCredit goes on after the credit c of output i.
RECURSIVE ApplyOutputs(_, _, _, _, _)
AfterCredit(ledger, dyn_params, outputs, i, new_utxos, c) ==
    IF c.kind = "Ok"
    THEN ApplyOutputs([ledger EXCEPT !.accounts = c.val], dyn_params, outputs, i + 1, new_utxos)
    ELSE c

\* A loop that stages or credits an output of value zero.
ApplyOutputsAcceptZero(ledger, dyn_params, outputs, i, new_utxos) ==
    IF i > Len(outputs) THEN Ok([ledger |-> ledger, new_utxos |-> new_utxos])
    ELSE IF discrimination(outputs[i].address) # ledger.static_params.discrimination
    THEN Err(Error("InvalidDiscrimination", <<>>))
    ELSE IF kind(outputs[i].address) \in {"Single", "Group"}
    THEN ApplyOutputs(ledger, dyn_params, outputs, i + 1,
                      Append(new_utxos, <<(i - 1) % 256, outputs[i]>>))
    ELSE AfterCredit(ledger, dyn_params, outputs, i, new_utxos,
                     CreditAccount(ledger.accounts, dyn_params,
                                   outputs[i].address.key, outputs[i].value))

\* A loop that counts the outputs from one.
ApplyOutputsCountFromOne(ledger, dyn_params, outputs, i, new_utxos) ==
    IF i > Len(outputs) THEN Ok([ledger |-> ledger, new_utxos |-> new_utxos])
    ELSE IF outputs[i].value = ValueZero
    THEN Err(Error("ZeroOutput", <<outputs[i]>>))
    ELSE IF discrimination(outputs[i].address) # ledger.static_params.discrimination
    THEN Err(Error("InvalidDiscrimination", <<>>))
    ELSE IF kind(outputs[i].address) \in {"Single", "Group"}
    THEN ApplyOutputs(ledger, dyn_params, outputs, i + 1,
                      Append(new_utxos, <<i % 256, outputs[i]>>))
    ELSE AfterCredit(ledger, dyn_params, outputs, i, new_utxos,
                     CreditAccount(ledger.accounts, dyn_params,
                                   outputs[i].address.key, outputs[i].value))

\* A loop that does not look at the discrimination of an output.
ApplyOutputsAnyDiscrimination(ledger, dyn_params, outputs, i, new_utxos) ==
    IF i > Len(outputs) THEN Ok([ledger |-> ledger, new_utxos |-> new_utxos])
    ELSE IF outputs[i].value = ValueZero
    THEN Err(Error("ZeroOutput", <<outputs[i]>>))
    ELSE IF kind(outputs[i].address) \in {"Single", "Group"}
    THEN ApplyOutputs(ledger, dyn_params, outputs, i + 1,
                      Append(new_utxos, <<(i - 1) % 256, outputs[i]>>))
    ELSE AfterCredit(ledger, dyn_params, outputs, i, new_utxos,
                     CreditAccount(ledger.accounts, dyn_params,
                                   outputs[i].address.key, outputs[i].value))

\* A loop that stages every output as a UTXO, whatever the kind of its address.
ApplyOutputsStageEveryKind(ledger, dyn_params, outputs, i, new_utxos) ==
    IF i > Len(outputs) THEN Ok([ledger |-> ledger, new_utxos |-> new_utxos])
    ELSE IF outputs[i].value = ValueZero
    THEN Err(Error("ZeroOutput", <<outputs[i]>>))
    ELSE IF discrimination(outputs[i].address) # ledger.static_params.discrimination
    THEN Err(Error("InvalidDiscrimination", <<>>))
    ELSE ApplyOutputs(ledger, dyn_params, outputs, i + 1,
                      Append(new_utxos, <<(i - 1) % 256, outputs[i]>>))

ApplyOutputs(ledger, dyn_params, outputs, i, new_utxos) ==
    IF i > Len(outputs) THEN Ok([ledger |-> ledger, new_utxos |-> new_utxos])
    ELSE IF outputs[i].value = ValueZero
    THEN Err(Error("ZeroOutput", <<outputs[i]>>))
    ELSE IF discrimination(outputs[i].address) # ledger.static_params.discrimination
    THEN Err(Error("InvalidDiscrimination", <<>>))
    ELSE IF kind(outputs[i].address) \in {"Single", "Group"}
    THEN ApplyOutputs(ledger, dyn_params, outputs, i + 1,
                      Append(new_utxos, <<(i - 1) % 256, outputs[i]>>))
    ELSE AfterCredit(ledger, dyn_params, outputs, i, new_utxos,
                     CreditAccount(ledger.accounts, dyn_params,
                                   outputs[i].address.key, outputs[i].value))

\* An insertion whose failure is swallowed: the ledger with the inputs spent
\* and the accounts credited is returned without the new outputs.
InsertOutputsIgnoreError(ledger, a) ==
    IF a.kind = "Err" THEN Ok(ledger)
    ELSE Ok([ledger EXCEPT !.utxos = a.val])

\* Step 5: ledger.utxos = ledger.utxos.add(transaction_id, &new_utxos)?
InsertOutputs(ledger, a) ==
    IF a.kind = "Err" THEN Err(Error("UtxoError", <<a.error>>))
    ELSE Ok([ledger EXCEPT !.utxos = a.val])

\* internal_apply_transaction after the result o of the loop over the outputs.
AfterOutputs(o, transaction_id) ==
    IF o.kind # "Ok" THEN o
    ELSE InsertOutputs(o.val.ledger,
                       UtxoAdd(o.val.ledger.utxos, transaction_id, o.val.new_utxos))

\* Step 3 of internal_apply_transaction: the totals and their comparison.
CheckTotals(ledger, dyn_params, transaction_id, outputs, total_input, total_output) ==
    IF total_input.kind = "Err"
    THEN Err(Error("UtxoInputsTotal", <<total_input.error>>))
    ELSE IF total_output.kind = "Err"
    THEN Err(Error("UtxoOutputsTotal", <<total_output.error>>))
    ELSE IF total_input.val # total_output.val
    THEN Err(Error("NotBalanced", <<total_input.val, total_output.val>>))
    ELSE AfterOutputs(ApplyOutputs(ledger, dyn_params, outputs, 1, <<>>), transaction_id)

\* internal_apply_transaction after the result v of the loop over the inputs.
AfterInputs(v, dyn_params, transaction_id, inputs, outputs) ==
    IF v.kind # "Ok" THEN v
    ELSE CheckTotals(v.val, dyn_params, transaction_id, outputs,
                     TotalInput(inputs, outputs), TotalOutput(inputs, outputs))

\* An application that takes the limits for granted.
internal_apply_transactionNoLimits(ledger, dyn_params, transaction_id, inputs, outputs, witnesses) ==
    IF Len(inputs) # Len(witnesses)
    THEN Err(Error("NotEnoughSignatures", <<Len(inputs), Len(witnesses)>>))
    ELSE AfterInputs(VerifyInputs(ledger, transaction_id, inputs, witnesses, 1),
                     dyn_params, transaction_id, inputs, outputs)

\* An application that does not compare the two counts.
internal_apply_transactionAnyArity(ledger, dyn_params, transaction_id, inputs, outputs, witnesses) ==
    IF ~(Len(inputs) < MaxArity) \/ ~(Len(outputs) < MaxArity) \/ ~(Len(witnesses) < MaxArity)
    THEN Panic("assert")
    ELSE AfterInputs(VerifyInputs(ledger, transaction_id, inputs, witnesses, 1),
                     dyn_params, transaction_id, inputs, outputs)

internal_apply_transaction(ledger, dyn_params, transaction_id, inputs, outputs, witnesses) ==
    IF ~(Len(inputs) < MaxArity) \/ ~(Len(outputs) < MaxArity) \/ ~(Len(witnesses) < MaxArity)
    THEN Panic("assert")
    ELSE IF Len(inputs) # Len(witnesses)
    THEN Err(Error("NotEnoughSignatures", <<Len(inputs), Len(witnesses)>>))
    ELSE AfterInputs(VerifyInputs(ledger, transaction_id, inputs, witnesses, 1),
                     dyn_params, transaction_id, inputs, outputs)

\* Ledger::apply_transaction.
apply_transaction(self, signed_tx, dyn_params) ==
    internal_apply_transaction(self, dyn_params, TransactionHash(signed_tx.transaction),
                               signed_tx.transaction.inputs,
                               signed_tx.transaction.outputs,
                               signed_tx.witnesses)

\* Ledger::apply_update.
apply_update(self, update) ==
    Ok([self EXCEPT !.settings = SettingsApply(self.settings, update)])

\* A certificate step that keeps the transaction's ledger when the
\* delegation state rejects the certificate.
WithDelegationIgnoreError(self, d) ==
    IF d.kind = "Err" THEN Ok(self)
    ELSE Ok([self EXCEPT !.delegation = d.val])

\* apply_certificate: self.delegation = self.delegation.apply(..)?
WithDelegation(self, d) ==
    IF d.kind = "Err" THEN Err(Error("Delegation", <<d.error>>))
    ELSE Ok([self EXCEPT !.delegation = d.val])

\* apply_certificate after the result t of apply_transaction.
AfterTransaction(t, certificate) ==
    IF t.kind # "Ok" THEN t
    ELSE WithDelegation(t.val, DelegationApply(t.val.delegation, certificate))

\* Ledger::apply_certificate.
apply_certificate(self, auth_cert, dyn_params) ==
    AfterTransaction(apply_transaction(self, auth_cert, dyn_params),
                     auth_cert.transaction.extra)

\* block::Message.
MessageOldUtxoDeclaration == [tag |-> "OldUtxoDeclaration", body |-> "decl"]
MessageTransaction(signed_tx) == [tag |-> "Transaction", body |-> signed_tx]
MessageUpdate(update) == [tag |-> "Update", body |-> update]
MessageCertificate(auth_cert) == [tag |-> "Certificate", body |-> auth_cert]

\* An iteration that skips a legacy declaration.
ApplyMessageSkipDeclaration(new_ledger, ledger_params, content) ==
    CASE content.tag = "OldUtxoDeclaration" -> Ok(new_ledger)
      [] content.tag = "Transaction" ->
            apply_transaction(new_ledger, content.body, ledger_params)
      [] content.tag = "Update" -> apply_update(new_ledger, content.body)
      [] content.tag = "Certificate" ->
            apply_certificate(new_ledger, content.body, ledger_params)

\* One iteration of the loop of apply_block: the match on the message.
ApplyMessage(new_ledger, ledger_params, content) ==
    CASE content.tag = "OldUtxoDeclaration" -> Panic("unimplemented")
      [] content.tag = "Transaction" ->
            apply_transaction(new_ledger, content.body, ledger_params)
      [] content.tag = "Update" -> apply_update(new_ledger, content.body)
      [] content.tag = "Certificate" ->
            apply_certificate(new_ledger, content.body, ledger_params)

\* A fold that skips a rejected message and commits the rest of the block.
RECURSIVE FoldBlock(_, _, _, _)
FoldNextSkipRejected(r, new_ledger, ledger_params, contents, i) ==
    IF r.kind = "Ok" THEN FoldBlock(r.val, ledger_params, contents, i + 1)
    ELSE FoldBlock(new_ledger, ledger_params, contents, i + 1)

\* The loop of apply_block after the result r of message i: `?` returns the
\* error, otherwise the loop goes on with the new ledger.
FoldNext(r, new_ledger, ledger_params, contents, i) ==
    IF r.kind = "Ok" THEN FoldBlock(r.val, ledger_params, contents, i + 1)
    ELSE r

\* The loop of apply_block over the messages, from message i on.
FoldBlock(new_ledger, ledger_params, contents, i) ==
    IF i > Len(contents) THEN Ok(new_ledger)
    ELSE FoldNext(ApplyMessage(new_ledger, ledger_params, contents[i]),
                  new_ledger, ledger_params, contents, i)

\* A fold that takes the messages from the last to the first.
apply_blockRightToLeft(self, ledger_params, contents) ==
    FoldBlock(self, ledger_params,
              [i \in 1..Len(contents) |-> contents[Len(contents) + 1 - i]], 1)

\* Ledger::apply_block.
apply_block(self, ledger_params, contents) ==
    FoldBlock(self, ledger_params, contents, 1)

(***************************************************************************)
(* The state: the canonical snapshot held by the caller, the last call     *)
(* with its arguments and result, and the history of successful calls.     *)
(***************************************************************************)
VARIABLES ledger, last, spent, applied, napplied, unspent

vars == <<ledger, last, spent, applied, napplied, unspent>>

(***************************************************************************)
(* The environment: the transactions, certificates, updates and blocks     *)
(* that are submitted.                                                     *)
(***************************************************************************)
\* The id of a transaction that is never applied with outputs.
GhostId == TransactionHash(Transaction(<<>>, <<>>, [cert |-> "Ghost", key |-> "none"]))

Other(k) == IF k = "k1" THEN "k2" ELSE "k1"

\* Witness templates: the witness is made once the transaction id is known.
TemplateUtxo(k) == [tag |-> "Utxo", signer |-> k, counter |-> 0, wrongmsg |-> FALSE]
TemplateOldUtxo(k) == [tag |-> "OldUtxo", signer |-> k, counter |-> 0, wrongmsg |-> FALSE]
TemplateAccount(k, c) == [tag |-> "Account", signer |-> k, counter |-> c, wrongmsg |-> FALSE]
TemplateWrongMessage(k) == [tag |-> "Utxo", signer |-> k, counter |-> 0, wrongmsg |-> TRUE]

MakeWitness(t, tid) ==
    CASE t.tag = "Utxo" ->
            WitnessUtxo(Sign(t.signer,
                             TransactionIdMessage(IF t.wrongmsg THEN GhostId ELSE tid)))
      [] t.tag = "OldUtxo" ->
            WitnessOldUtxo(t.signer, Sign(t.signer, TransactionIdMessage(tid)))
      [] t.tag = "Account" ->
            WitnessAccount(Sign(t.signer, TransactionIdSpendingCounter(tid, t.counter)))

\* The outputs the environment pays.
GoodOutputs(d) ==
    { Output(Address(d, "Single", "k1"), 2),
      Output(Address(d, "Single", "k2"), 1),
      Output(Address(d, "Account", "k1"), 1),
      Output(Address(d, "Group", "k1"), MaxValue) }

OtherDiscrimination(d) == IF d = "Test" THEN "Production" ELSE "Test"

BadOutputs(d) ==
    { Output(Address(d, "Single", "k2"), 0),
      Output(Address(OtherDiscrimination(d), "Single", "k2"), 1),
      Output(Address(OtherDiscrimination(d), "Account", "k1"), 1),
      Output(Address(OtherDiscrimination(d), "Group", "k1"), 1) }

OutputCandidates(d) == GoodOutputs(d) \cup BadOutputs(d)

\* The outputs that come first in a list of two.
FirstOutputs(d) ==
    { Output(Address(d, "Single", "k2"), 1),
      Output(Address(d, "Account", "k1"), 1) }

OutputLists(d) ==
    {<<>>} \cup { <<a>> : a \in OutputCandidates(d) }
           \cup { <<g, b>> : g \in FirstOutputs(d), b \in OutputCandidates(d) }
           \cup { <<Output(Address(OtherDiscrimination(d), "Single", "k2"), 1),
                    Output(Address(d, "Single", "k2"), 0)>>,
                  <<Output(Address(d, "Single", "k2"), 0),
                    Output(Address(OtherDiscrimination(d), "Single", "k2"), 1)>> }

\* Output lists that break a rule of the outputs, for the transactions that
\* break a rule of the inputs as well.
SeveralOutputLists(d) ==
    { <<Output(Address(d, "Single", "k2"), 0)>>,
      <<Output(Address(d, "Single", "k2"), 1),
        Output(Address(OtherDiscrimination(d), "Single", "k2"), 1)>> }

FewOutputLists(d) == { <<Output(Address(d, "Single", "k2"), 1)>> }

WrongValue(v) == IF v = 1 THEN 2 ELSE 1

\* (input, witness template) pairs that are expected to verify against L.
GoodPairs(L) ==
    { <<InputFromUtxo(k[1], k[2], L.utxos[k].value), TemplateUtxo(L.utxos[k].address.key)>> :
        k \in DOMAIN L.utxos }
    \cup { <<InputFromAccount(a, 1), TemplateAccount(a, L.accounts[a].counter)>> :
             a \in DOMAIN L.accounts }

\* (input, witness template) pairs of all sorts.
AllPairs(L) ==
    GoodPairs(L)
    \cup UNION { { <<InputFromUtxo(k[1], k[2], L.utxos[k].value), t>> :
                     t \in { TemplateUtxo(Other(L.utxos[k].address.key)),
                             TemplateAccount("k1", 0),
                             TemplateOldUtxo(L.utxos[k].address.key),
                             TemplateWrongMessage(L.utxos[k].address.key) } } :
                   k \in DOMAIN L.utxos }
    \cup { <<InputFromUtxo(k[1], k[2], WrongValue(L.utxos[k].value)),
             TemplateUtxo(L.utxos[k].address.key)>> : k \in DOMAIN L.utxos }
    \cup { <<sp.input, TemplateUtxo(sp.owner)>> : sp \in spent }
    \cup { <<InputFromUtxo(GhostId, 0, 1), TemplateUtxo("k1")>> }
    \cup { <<InputFromAccount("k1", 1), t>> :
             t \in { TemplateAccount("k1", 0), TemplateAccount("k1", 1),
                     TemplateAccount("k2", 0), TemplateUtxo("k1"),
                     TemplateOldUtxo("k1") } }
    \cup { <<InputFromAccount("k1", MaxValue), TemplateAccount("k1", 0)>> }
    \cup { <<InputFromAccount("k2", 1), TemplateAccount("k2", 0)>> }

PairLists(L) ==
    {<<>>} \cup { <<p>> : p \in AllPairs(L) }
           \cup { <<g, p>> : g \in GoodPairs(L), p \in AllPairs(L) }

GoodPairLists(L) == {<<>>} \cup { <<p>> : p \in GoodPairs(L) }

\* The signed transaction with the inputs of the pairs, the given outputs and
\* extra payload, and one witness per pair.
MakeSigned(pairs, outs, extra) ==
    LET tx == Transaction([i \in 1..Len(pairs) |-> pairs[i][1]], outs, extra)
        tid == TransactionHash(tx)
    IN AuthenticatedTransaction(tx, [i \in 1..Len(pairs) |-> MakeWitness(pairs[i][2], tid)])

\* The same with the last witness dropped, or one witness too many.
DropWitness(stx) ==
    [stx EXCEPT !.witnesses = SubSeq(@, 1, Len(@) - 1)]
ExtraWitness(stx) ==
    [stx EXCEPT !.witnesses =
        Append(@, MakeWitness(TemplateUtxo("k1"), TransactionHash(stx.transaction)))]

Transactions(L, extra) ==
    LET d == L.static_params.discrimination
        inputFocused == { MakeSigned(ps, outs, extra) :
                            ps \in PairLists(L), outs \in FewOutputLists(d) }
        outputFocused == { MakeSigned(ps, outs, extra) :
                             ps \in GoodPairLists(L), outs \in OutputLists(d) }
        arity == { DropWitness(MakeSigned(ps, outs, extra)) :
                     ps \in GoodPairLists(L) \ {<<>>}, outs \in FewOutputLists(d) }
                 \cup { ExtraWitness(MakeSigned(ps, outs, extra)) :
                          ps \in GoodPairLists(L), outs \in FewOutputLists(d) }
        several == { MakeSigned(<<q>>, outs, extra) :
                       q \in AllPairs(L), outs \in SeveralOutputLists(d) }
                   \cup { DropWitness(MakeSigned(<<q>>, outs, extra)) :
                            q \in AllPairs(L) \ GoodPairs(L), outs \in SeveralOutputLists(d) }
    IN inputFocused \cup outputFocused \cup arity \cup several

Certificates ==
    { [cert |-> c, key |-> "k1"] : c \in {"StakeKeyRegistration", "StakeKeyDeregistration"} }

CertificateTransactions(L) ==
    LET d == L.static_params.discrimination
    IN { MakeSigned(ps, outs, c) :
           ps \in GoodPairLists(L),
           outs \in {<<>>, <<Output(Address(d, "Single", "k2"), 0)>>},
           c \in Certificates }

Updates == {0, 1}

\* The messages of a block that is submitted on top of L.
BlockTransactions(L) ==
    LET d == L.static_params.discrimination
    IN { MakeSigned(<<>>, <<Output(Address(d, "Single", "k1"), 2)>>, NoExtra),
         MakeSigned(<<>>, <<Output(Address(d, "Single", "k2"), 0)>>, NoExtra),
         MakeSigned(<<<<InputFromUtxo(GhostId, 0, 1), TemplateUtxo("k1")>>>>,
                    <<Output(Address(d, "Single", "k2"), 1)>>, NoExtra) }
       \cup { MakeSigned(<<g>>, <<Output(Address(d, "Single", "k2"), 1)>>, NoExtra) :
                g \in GoodPairs(L) }

BlockMessages(L) ==
    { MessageTransaction(stx) : stx \in BlockTransactions(L) }
    \cup { MessageCertificate(MakeSigned(<<>>, <<>>, c)) : c \in Certificates }
    \cup { MessageUpdate(1), MessageOldUtxoDeclaration }

\* The snapshot the next message of a block is written for.
AfterResult(L, r) == IF r.kind = "Ok" THEN r.val ELSE L
After(L, params, m) == AfterResult(L, ApplyMessage(L, params, m))

\* The snapshot the message after the block b is written for.
RECURSIVE AfterBlock(_, _, _, _)
AfterBlock(L, params, b, i) ==
    IF i > Len(b) THEN L ELSE AfterBlock(After(L, params, b[i]), params, b, i + 1)

\* The blocks of at most n messages, each message written for the snapshot
\* left by the messages before it.
ExtendBlocks(L, params, shorter) ==
    shorter \cup UNION { { Append(b, m) : m \in BlockMessages(AfterBlock(L, params, b, 1)) } :
                          b \in shorter }

RECURSIVE Blocks(_, _, _)
Blocks(L, params, n) ==
    IF n = 0 THEN {<<>>} ELSE ExtendBlocks(L, params, Blocks(L, params, n - 1))

Reverse(b) == [i \in 1..Len(b) |-> b[Len(b) + 1 - i]]

\* The blocks of two transactions that spend the same output of L, each
\* signed by the owner of the output over its own transaction id.
ConflictingBlocks(L) ==
    LET d == L.static_params.discrimination
    IN { <<MessageTransaction(MakeSigned(<<g>>, <<Output(Address(d, "Single", "k2"), 1)>>, NoExtra)),
           MessageTransaction(MakeSigned(<<g>>, <<Output(Address(d, "Single", "k1"), 2)>>, NoExtra))>> :
           g \in { p \in GoodPairs(L) : p[1].index_or_account # AccountIndex } }

\* The transactions carried by the messages of a block.
BlockSigned(b) ==
    { b[i].body : i \in { j \in 1..Len(b) : b[j].tag \in {"Transaction", "Certificate"} } }

\* The dynamic parameters a transaction is submitted with: account creation
\* is allowed or not, for the transactions that pay to an account or debit one.
DynParams(stx) ==
    IF \/ \E i \in 1..Len(stx.transaction.outputs) :
             kind(stx.transaction.outputs[i].address) = "Account"
       \/ \E i \in 1..Len(stx.transaction.inputs) :
             stx.transaction.inputs[i].index_or_account = AccountIndex
    THEN { LedgerParameters(b) : b \in BOOLEAN }
    ELSE { LedgerParameters(TRUE) }

(***************************************************************************)
(* History kept for the properties: the outputs spent and the             *)
(* transactions admitted by successful calls.                              *)
(***************************************************************************)
\* The key (transaction id, output index) a UTXO input refers to.
UtxoKey(input) == <<input.input_ptr, input.index_or_account>>

\* The UTXO inputs of an applied transaction, each with the key that signed
\* for it: the outputs the transaction has spent.
SpentBy(stx) ==
    { [input |-> stx.transaction.inputs[i], owner |-> stx.witnesses[i].sig.signer] :
        i \in { j \in 1..Len(stx.transaction.inputs) :
                  /\ stx.transaction.inputs[j].index_or_account # AccountIndex
                  /\ stx.witnesses[j].tag = "Utxo" } }

SpentKeys == { UtxoKey(sp.input) : sp \in spent }

\* The outputs an applied transaction creates, each under its key
\* (transaction id, output index), and the keys it uses as inputs.
CreatedBy(stx) ==
    { [key |-> <<TransactionHash(stx.transaction), j - 1>>,
       output |-> stx.transaction.outputs[j]] :
        j \in { i \in 1..Len(stx.transaction.outputs) :
                  stx.transaction.outputs[i].address.kind \in {"Single", "Group"} } }
UsedBy(stx) == { UtxoKey(sp.input) : sp \in SpentBy(stx) }

\* The outputs created by the applied transactions and not used as an input
\* by a transaction applied since, after the transactions txs from the i-th
\* on are admitted in their order on top of the outputs U.
RECURSIVE Settle(_, _, _)
Settle(U, txs, i) ==
    IF i > Len(txs) THEN U
    ELSE Settle({ u \in U : u.key \notin UsedBy(txs[i]) } \cup CreatedBy(txs[i]), txs, i + 1)

\* The transactions that the messages of a block carry, in their order.
RECURSIVE BlockSequence(_, _)
BlockSequence(b, i) ==
    IF i > Len(b) THEN <<>>
    ELSE IF b[i].tag \in {"Transaction", "Certificate"}
    THEN <<b[i].body>> \o BlockSequence(b, i + 1)
    ELSE BlockSequence(b, i + 1)

Call(op, args, params, result) ==
    [op |-> op, args |-> args, params |-> params, base |-> ledger,
     spent |-> SpentKeys, result |-> result]

\* The caller adopts the new snapshot when the call returns Ok and keeps the
\* base snapshot otherwise.
Return(op, args, params, result, txs) ==
    /\ last' = Call(op, args, params, result)
    /\ IF result.kind = "Ok"
       THEN /\ ledger' = result.val
            /\ napplied' = napplied + 1
            /\ applied' = applied \cup { txs[i] : i \in 1..Len(txs) }
            /\ spent' = spent \cup UNION { SpentBy(txs[i]) : i \in 1..Len(txs) }
            /\ unspent' = Settle(unspent, txs, 1)
       ELSE UNCHANGED <<ledger, napplied, applied, spent, unspent>>

Init ==
    /\ ledger = LedgerNew(LedgerStaticParameters("Test"), SettingsNew)
    /\ last = [op |-> "new", args |-> <<>>, params |-> LedgerParameters(TRUE),
               base |-> LedgerNew(LedgerStaticParameters("Test"), SettingsNew),
               spent |-> {},
               result |-> Ok(LedgerNew(LedgerStaticParameters("Test"), SettingsNew))]
    /\ spent = {}
    /\ applied = {}
    /\ napplied = 0
    /\ unspent = {}

\* A rejected call leaves the caller with the snapshot it had, so whatever
\* may follow a rejected call may as well be called in its place: calls are
\* made on the snapshots returned by Ledger::new and by successful calls.
CanCall == napplied < MaxApplied /\ last.result.kind = "Ok"

ApplyTransaction ==
    /\ CanCall
    /\ \E stx \in Transactions(ledger, NoExtra) : \E p \in DynParams(stx) :
          Return("apply_transaction", stx, p, apply_transaction(ledger, stx, p), <<stx>>)

ApplyCertificate ==
    /\ CanCall
    /\ \E stx \in CertificateTransactions(ledger) : \E p \in DynParams(stx) :
          Return("apply_certificate", stx, p, apply_certificate(ledger, stx, p), <<stx>>)

ApplyUpdate ==
    /\ CanCall
    /\ \E u \in Updates :
          Return("apply_update", u, LedgerParameters(TRUE), apply_update(ledger, u), <<>>)

ApplyBlock ==
    /\ CanCall
    /\ \E p \in { LedgerParameters(TRUE) } :
          \E f \in Blocks(ledger, p, MaxBlock) \cup ConflictingBlocks(ledger) :
             \E b \in {f, Reverse(f)} :
             Return("apply_block", b, p, apply_block(ledger, p, b), BlockSequence(b, 1))

\* Transactions at the limit of 254 inputs, outputs and witnesses and one
\* beyond it: n inputs with as many witnesses, n outputs, n witnesses.
LimitTransactions(L, n) ==
    LET d == L.static_params.discrimination
    IN { MakeSigned([i \in 1..n |-> <<InputFromUtxo(GhostId, 0, 1), TemplateWrongMessage("k1")>>],
                    <<Output(Address(d, "Single", "k2"), 1)>>, NoExtra),
         MakeSigned(<<>>, [j \in 1..n |-> Output(Address(d, "Single", "k2"), 1)], NoExtra),
         [MakeSigned(<<>>, <<Output(Address(d, "Single", "k2"), 1)>>, NoExtra)
            EXCEPT !.witnesses = [i \in 1..n |-> MakeWitness(TemplateWrongMessage("k1"), GhostId)]] }

\* The transactions of 255 inputs, outputs or witnesses, and, within the
\* limit, the one of 254 witnesses without inputs.
ApplyAtLimit ==
    /\ CanCall
    /\ \E stx \in LimitTransactions(ledger, MaxArity)
                    \cup { t \in LimitTransactions(ledger, MaxArity - 1) :
                             Len(t.witnesses) = MaxArity - 1
                             /\ Len(t.transaction.inputs) = 0 } :
          Return("apply_transaction", stx, LedgerParameters(TRUE),
                 apply_transaction(ledger, stx, LedgerParameters(TRUE)), <<stx>>)

Next == ApplyTransaction \/ ApplyCertificate \/ ApplyUpdate \/ ApplyBlock \/ ApplyAtLimit

Spec == Init /\ [][Next]_vars

(***************************************************************************)
(* Properties.                                                             *)
(***************************************************************************)
\* The last call is a call of op.
Called(op) == last.op = op

\* A transaction within the limits of the data model (at most 254 inputs,
\* outputs and witnesses).
WithinLimits(stx) ==
    /\ Len(stx.transaction.inputs) < MaxArity
    /\ Len(stx.transaction.outputs) < MaxArity
    /\ Len(stx.witnesses) < MaxArity

\* The result of applying the first i messages of a block one after the
\* other, each to the snapshot returned for the one before.
RECURSIVE Intermediate(_, _, _, _)
Intermediate(base, params, contents, i) ==
    IF i = 0 THEN Ok(base)
    ELSE LET p == Intermediate(base, params, contents, i - 1)
         IN IF p.kind = "Ok" THEN ApplyMessage(p.val, params, contents[i]) ELSE p

\* ---- What the specification calls a verified input, stated on the base
\* ---- snapshot B and the signed transaction stx.
IsUtxoInput(input) == input.index_or_account # AccountIndex

RECURSIVE SetSum(_, _)
SetSum(f, S) ==
    IF S = {} THEN 0
    ELSE LET x == CHOOSE y \in S : TRUE IN f[x] + SetSum(f, S \ {x})

\* The inputs before input i that debit the account a.
EarlierFrom(stx, i, a) ==
    { j \in 1..(i - 1) : /\ ~IsUtxoInput(stx.transaction.inputs[j])
                         /\ stx.transaction.inputs[j].input_ptr.account = a }

\* Input i refers to an unspent output of B that no earlier input has taken,
\* claims its value and carries a Utxo witness signed by the output's key
\* over the transaction id.
UtxoInputVerifies(B, stx, i) ==
    LET input == stx.transaction.inputs[i]
        w == stx.witnesses[i]
    IN /\ w.tag = "Utxo"
       /\ UtxoKey(input) \in DOMAIN B.utxos
       /\ \A j \in 1..(i - 1) :
             ~(IsUtxoInput(stx.transaction.inputs[j])
               /\ UtxoKey(stx.transaction.inputs[j]) = UtxoKey(input))
       /\ input.value = B.utxos[UtxoKey(input)].value
       /\ B.utxos[UtxoKey(input)].address.kind \in {"Single", "Group"}
       /\ w.sig = Sign(B.utxos[UtxoKey(input)].address.key,
                       TransactionIdMessage(TransactionHash(stx.transaction)))

\* Input i debits an account of B that can pay it after the earlier debits and
\* carries an Account witness signed by the account over the transaction id
\* and the spending counter the account has when the input is reached.
AccountInputVerifies(B, stx, i) ==
    LET input == stx.transaction.inputs[i]
        w == stx.witnesses[i]
        a == input.input_ptr.account
        earlier == EarlierFrom(stx, i, a)
    IN /\ w.tag = "Account"
       /\ a \in DOMAIN B.accounts
       /\ input.value + SetSum([j \in earlier |-> stx.transaction.inputs[j].value], earlier)
             <= B.accounts[a].value
       /\ w.sig = Sign(a, TransactionIdSpendingCounter(TransactionHash(stx.transaction),
                                                       B.accounts[a].counter + Cardinality(earlier)))

InputVerifies(B, stx, i) ==
    IF IsUtxoInput(stx.transaction.inputs[i])
    THEN UtxoInputVerifies(B, stx, i)
    ELSE AccountInputVerifies(B, stx, i)

ArityMatches(stx) == Len(stx.transaction.inputs) = Len(stx.witnesses)

AllInputsVerify(B, stx) ==
    /\ ArityMatches(stx)
    /\ \A i \in 1..Len(stx.transaction.inputs) : InputVerifies(B, stx, i)

\* Output j is paid to a Single or Group address: it becomes a UTXO.
IsUtxoOutput(output) == output.address.kind \in {"Single", "Group"}

\* The key under which output j (counted from 1) of stx enters the UTXO set.
OutputKey(stx, j) == <<TransactionHash(stx.transaction), j - 1>>

\* Some output of stx that becomes a UTXO has its key in the UTXO set of B.
StagedKeyPresent(B, stx) ==
    \E j \in 1..Len(stx.transaction.outputs) :
        /\ IsUtxoOutput(stx.transaction.outputs[j])
        /\ OutputKey(stx, j) \in DOMAIN B.utxos

\* A step of the application of stx to B fails: the arity, an input, an
\* output that is zero or of the wrong discrimination, the insertion.
SomeStepFails(B, stx) ==
    \/ ~ArityMatches(stx)
    \/ \E i \in 1..Len(stx.transaction.inputs) :
          i <= Len(stx.witnesses) /\ ~InputVerifies(B, stx, i)
    \/ \E j \in 1..Len(stx.transaction.outputs) :
          \/ stx.transaction.outputs[j].value = ValueZero
          \/ stx.transaction.outputs[j].address.discrimination
                # B.static_params.discrimination
    \/ StagedKeyPresent(B, stx)

\* C1: apply_block is all-or-nothing.  If a message of the block is rejected
\* (the messages before it having been applied to the intermediate
\* snapshots), apply_block returns the error of that first rejected message
\* and the ledger it was called on is unchanged in every component.
C1_BlockAllOrNothing ==
    Called("apply_block") =>
        \A i \in 1..Len(last.args) :
            LET r == Intermediate(last.base, last.params, last.args, i)
            IN r.kind = "Err" =>
                  /\ last.result = r
                  /\ ledger = last.base

\* A block whose first message was applied to the intermediate snapshot and
\* whose second message was rejected.
C1_Witness ==
    /\ Called("apply_block")
    /\ Len(last.args) = 2
    /\ Intermediate(last.base, last.params, last.args, 1).kind = "Ok"
    /\ Intermediate(last.base, last.params, last.args, 1).val.utxos # last.base.utxos
    /\ Intermediate(last.base, last.params, last.args, 2).kind = "Err"
    /\ last.result.kind = "Err"
    /\ ledger = last.base

\* C2: apply_transaction is all-or-nothing.  Whenever a step fails (the arity,
\* a later input after earlier inputs were removed or debited, a signature
\* after the entry was removed, a zero or wrong-discrimination output after
\* earlier account outputs were credited, the insertion of the new outputs),
\* an error is returned and the base snapshot held by the caller is
\* unchanged: nothing removed, debited, credited, advanced or inserted.
C2_TransactionAllOrNothing ==
    (Called("apply_transaction") /\ WithinLimits(last.args)
       /\ SomeStepFails(last.base, last.args))
    => /\ last.result.kind = "Err"
       /\ ledger = last.base

\* A transaction of two inputs whose first input verifies (its entry is
\* removed or its account debited in the working copy) and whose second
\* input fails.
C2_Witness ==
    /\ Called("apply_transaction")
    /\ Len(last.args.transaction.inputs) = 2
    /\ Len(last.args.witnesses) = 2
    /\ InputVerifies(last.base, last.args, 1)
    /\ ~InputVerifies(last.base, last.args, 2)
    /\ last.result.kind = "Err"
    /\ ledger = last.base

\* ---- Totals, stated on the transaction and the snapshots.
SeqSum(vs) == SetSum(vs, DOMAIN vs)
InputTotal(stx) == SeqSum(InputValues(stx.transaction.inputs))
OutputTotal(stx) == SeqSum(OutputValues(stx.transaction.outputs))

\* The value held by a snapshot: its UTXO values plus its account balances.
LedgerTotal(L) ==
    SetSum([k \in DOMAIN L.utxos |-> L.utxos[k].value], DOMAIN L.utxos)
    + SetSum([a \in DOMAIN L.accounts |-> L.accounts[a].value], DOMAIN L.accounts)

AccountBalance(L, a) == IF a \in DOMAIN L.accounts THEN L.accounts[a].value ELSE 0

\* The inputs of stx that debit the account a, the first n outputs that credit it.
DebitsOf(stx, a) ==
    { j \in 1..Len(stx.transaction.inputs) :
        /\ ~IsUtxoInput(stx.transaction.inputs[j])
        /\ stx.transaction.inputs[j].input_ptr.account = a }
CreditsOf(stx, a, n) ==
    { j \in 1..n : /\ ~IsUtxoOutput(stx.transaction.outputs[j])
                   /\ stx.transaction.outputs[j].address.key = a }
AccountDebits(stx, a) ==
    SetSum([j \in DebitsOf(stx, a) |-> stx.transaction.inputs[j].value], DebitsOf(stx, a))
AccountCredits(stx, a, n) ==
    SetSum([j \in CreditsOf(stx, a, n) |-> stx.transaction.outputs[j].value], CreditsOf(stx, a, n))

\* The credits of the first n outputs succeed: the destination account exists
\* or may be created, and its balance stays within Value.
CreditsSucceed(B, stx, params, n) ==
    \A a \in Keys :
        CreditsOf(stx, a, n) # {} =>
            /\ params.allow_account_creation \/ a \in DOMAIN B.accounts
            /\ AccountBalance(B, a) - AccountDebits(stx, a) + AccountCredits(stx, a, n)
                  <= MaxValue

\* The first n outputs are non-zero and of the ledger's discrimination.
OutputsWellFormed(B, stx, n) ==
    \A j \in 1..n :
        /\ stx.transaction.outputs[j].value # ValueZero
        /\ stx.transaction.outputs[j].address.discrimination = B.static_params.discrimination

\* C3: the balance check compares the sum of the declared input values with
\* the sum of the declared OUTPUT values: a transaction whose inputs all
\* verify and whose output total differs from its input total is rejected
\* with NotBalanced(total_input, total_output).
C3_BalanceCheck ==
    (Called("apply_transaction") /\ WithinLimits(last.args)
       /\ AllInputsVerify(last.base, last.args)
       /\ InputTotal(last.args) <= MaxValue /\ OutputTotal(last.args) <= MaxValue
       /\ InputTotal(last.args) # OutputTotal(last.args))
    => last.result = Err(Error("NotBalanced",
                               <<InputTotal(last.args), OutputTotal(last.args)>>))

\* ---- Valid transactions.
\* Balanced, every input existing with matching value and a correct witness,
\* outputs non-zero with the ledger's discrimination.
Valid(B, stx) ==
    /\ WithinLimits(stx)
    /\ AllInputsVerify(B, stx)
    /\ InputTotal(stx) <= MaxValue
    /\ InputTotal(stx) = OutputTotal(stx)
    /\ OutputsWellFormed(B, stx, Len(stx.transaction.outputs))

\* Every output spent by stx is absent from L, every other output of B is kept.
SpentAbsent(B, L, stx) ==
    LET taken == { UtxoKey(stx.transaction.inputs[i]) :
                     i \in { j \in 1..Len(stx.transaction.inputs) :
                               IsUtxoInput(stx.transaction.inputs[j]) } }
    IN /\ taken \cap DOMAIN L.utxos = {}
       /\ \A k \in DOMAIN B.utxos \ taken : k \in DOMAIN L.utxos /\ L.utxos[k] = B.utxos[k]

\* Every output of stx is present in L exactly once: as the entry under
\* (transaction id, output index), or as a credit to the destination account.
OutputsPresent(B, L, stx) ==
    /\ \A j \in 1..Len(stx.transaction.outputs) :
          IsUtxoOutput(stx.transaction.outputs[j]) =>
             /\ OutputKey(stx, j) \in DOMAIN L.utxos
             /\ L.utxos[OutputKey(stx, j)] = stx.transaction.outputs[j]
    /\ \A k \in DOMAIN L.utxos \ DOMAIN B.utxos :
          \E j \in 1..Len(stx.transaction.outputs) :
             IsUtxoOutput(stx.transaction.outputs[j]) /\ k = OutputKey(stx, j)
    /\ \A a \in Keys :
          AccountBalance(L, a) =
             AccountBalance(B, a) - AccountDebits(stx, a)
                + AccountCredits(stx, a, Len(stx.transaction.outputs))

AppliedAsSpecified(B, L, stx) ==
    /\ LedgerTotal(L) = LedgerTotal(B)
    /\ SpentAbsent(B, L, stx)
    /\ OutputsPresent(B, L, stx)

\* C4 as stated: every valid transaction succeeds, the total is conserved,
\* spent entries are absent and every output is present exactly once.
C4_ValidSucceeds ==
    (Called("apply_transaction") /\ Valid(last.base, last.args))
    => /\ last.result.kind = "Ok"
       /\ AppliedAsSpecified(last.base, ledger, last.args)

\* C4: every valid transaction whose account credits succeed (the account
\* exists or may be created, its balance stays within Value) and whose
\* outputs have no entry yet under (transaction id, output index) succeeds;
\* the total of UTXO values and account balances is conserved, every spent
\* entry is absent, and every output is present exactly once, as the entry
\* under (transaction id, output index) or as a credit to its account.
C4_ValidInsertableSucceeds ==
    (Called("apply_transaction") /\ Valid(last.base, last.args)
       /\ CreditsSucceed(last.base, last.args, last.params,
                         Len(last.args.transaction.outputs))
       /\ ~StagedKeyPresent(last.base, last.args))
    => /\ last.result.kind = "Ok"
       /\ AppliedAsSpecified(last.base, ledger, last.args)

\* A valid transaction that spends an output and creates one has been applied.
C4_Witness ==
    /\ Called("apply_transaction") /\ Valid(last.base, last.args)
    /\ ~StagedKeyPresent(last.base, last.args)
    /\ \E i \in 1..Len(last.args.transaction.inputs) :
          IsUtxoInput(last.args.transaction.inputs[i])
    /\ \E j \in 1..Len(last.args.transaction.outputs) :
          IsUtxoOutput(last.args.transaction.outputs[j])
    /\ last.result.kind = "Ok"
    /\ ledger = last.result.val

\* ---- References to outputs.
\* Input i of stx is a UTXO reference that is reached with a Utxo witness:
\* the counts match and every earlier input verifies.
ReferenceReached(B, stx, i) ==
    /\ WithinLimits(stx) /\ ArityMatches(stx)
    /\ IsUtxoInput(stx.transaction.inputs[i])
    /\ stx.witnesses[i].tag = "Utxo"
    /\ \A j \in 1..(i - 1) : InputVerifies(B, stx, j)

\* An earlier input of stx refers to the same output as input i.
ListedBefore(stx, i) ==
    \E j \in 1..(i - 1) :
        /\ IsUtxoInput(stx.transaction.inputs[j])
        /\ UtxoKey(stx.transaction.inputs[j]) = UtxoKey(stx.transaction.inputs[i])

RejectedWith(tag) ==
    /\ last.result.kind = "Err"
    /\ last.result.error.tag = tag
    /\ ledger = last.base

\* C5 as stated: once a successfully applied transaction has spent a UTXO,
\* every later reference to it fails with UtxoError; so does the second
\* listing of a UTXO in one transaction, and a reference to a UTXO that never
\* existed; the base snapshot is untouched.
C5_ConsumableOnce ==
    Called("apply_transaction") =>
        \A i \in 1..Len(last.args.transaction.inputs) :
            (/\ ReferenceReached(last.base, last.args, i)
             /\ \/ UtxoKey(last.args.transaction.inputs[i]) \in last.spent
                \/ ListedBefore(last.args, i)
                \/ UtxoKey(last.args.transaction.inputs[i]) \notin DOMAIN last.base.utxos)
            => RejectedWith("UtxoError")

\* C6: a transaction whose number of inputs differs from its number of
\* witnesses is rejected with NotEnoughSignatures(inputs, witnesses) and the
\* ledger is unchanged; every applied transaction has as many witnesses as
\* inputs.
C6_NotEnoughSignatures ==
    /\ (Called("apply_transaction") /\ WithinLimits(last.args) /\ ~ArityMatches(last.args))
       => /\ last.result = Err(Error("NotEnoughSignatures",
                                     <<Len(last.args.transaction.inputs),
                                       Len(last.args.witnesses)>>))
          /\ ledger = last.base
    /\ \A stx \in applied : ArityMatches(stx)

\* A transaction with one input more than witnesses, whose witnessed inputs
\* verify, has been rejected.
C6_Witness ==
    /\ Called("apply_transaction")
    /\ Len(last.args.transaction.inputs) = Len(last.args.witnesses) + 1
    /\ \A i \in 1..Len(last.args.witnesses) : InputVerifies(last.base, last.args, i)
    /\ RejectedWith("NotEnoughSignatures")
    /\ applied # {}

\* ---- A transaction of one input and one output that spends a UTXO.
\* The input refers to an entry of B with the matching value, signed by the
\* key that owns the entry; the output is non-zero, of the ledger's
\* discrimination, and paid to a Single or Group address.
SpendsOneToOne(B, stx) ==
    /\ Len(stx.transaction.inputs) = 1 /\ Len(stx.witnesses) = 1
    /\ Len(stx.transaction.outputs) = 1
    /\ IsUtxoInput(stx.transaction.inputs[1])
    /\ InputVerifies(B, stx, 1)
    /\ OutputsWellFormed(B, stx, 1)
    /\ IsUtxoOutput(stx.transaction.outputs[1])

SpentAndCreated(B, L, stx) ==
    /\ UtxoKey(stx.transaction.inputs[1]) \notin DOMAIN L.utxos
    /\ OutputKey(stx, 1) \in DOMAIN L.utxos
    /\ L.utxos[OutputKey(stx, 1)] = stx.transaction.outputs[1]

\* C7 as stated: such a transaction is accepted whatever its totals; the
\* spent UTXO is gone and the new UTXO exists under (transaction id, 0).
C7_UnbalancedAccepted ==
    (Called("apply_transaction") /\ SpendsOneToOne(last.base, last.args))
    => /\ last.result.kind = "Ok"
       /\ SpentAndCreated(last.base, ledger, last.args)

\* C7: such a transaction is accepted, also when its output total is smaller
\* than its input total, provided the UTXO set has no entry yet under
\* (transaction id, 0); the spent UTXO is gone and the new UTXO of the
\* output's value exists under (transaction id, 0).
C7_UnbalancedAcceptedOnce ==
    (Called("apply_transaction") /\ SpendsOneToOne(last.base, last.args)
       /\ OutputKey(last.args, 1) \notin DOMAIN last.base.utxos)
    => /\ last.result.kind = "Ok"
       /\ SpentAndCreated(last.base, ledger, last.args)

\* The tested case: the output total is smaller than the input total.
C7_Witness ==
    /\ Called("apply_transaction") /\ SpendsOneToOne(last.base, last.args)
    /\ OutputTotal(last.args) < InputTotal(last.args)
    /\ last.result.kind = "Ok"
    /\ SpentAndCreated(last.base, ledger, last.args)

\* ---- Spending an output created by an applied transaction.
\* The key k is that of an output of an applied transaction.
CreatedByApplied(k) ==
    \E T \in applied :
        /\ k[1] = TransactionHash(T.transaction)
        /\ k[2] + 1 \in 1..Len(T.transaction.outputs)
        /\ IsUtxoOutput(T.transaction.outputs[k[2] + 1])

\* stx has one input, with a Utxo witness, that refers to an unspent output
\* of B created by an applied transaction.
SpendsCreated(B, stx) ==
    /\ Len(stx.transaction.inputs) = 1 /\ Len(stx.witnesses) = 1
    /\ IsUtxoInput(stx.transaction.inputs[1])
    /\ stx.witnesses[1].tag = "Utxo"
    /\ UtxoKey(stx.transaction.inputs[1]) \in DOMAIN B.utxos
    /\ CreatedByApplied(UtxoKey(stx.transaction.inputs[1]))

Recorded(B, stx) == B.utxos[UtxoKey(stx.transaction.inputs[1])]

SignedByOwner(B, stx) ==
    stx.witnesses[1].sig = Sign(Recorded(B, stx).address.key,
                                TransactionIdMessage(TransactionHash(stx.transaction)))

\* The failures of the round trip: a signature by another key, a claimed
\* value that differs from the recorded one.
RoundTripFailures(B, stx) ==
    /\ (/\ stx.transaction.inputs[1].value = Recorded(B, stx).value
        /\ stx.witnesses[1].sig.signer # Recorded(B, stx).address.key)
       => RejectedWith("UtxoInvalidSignature")
    /\ stx.transaction.inputs[1].value # Recorded(B, stx).value
       => /\ last.result = Err(Error("UtxoValueNotMatching",
                                     <<stx.transaction.inputs[1].value,
                                       Recorded(B, stx).value>>))
          /\ ledger = last.base

\* C8 as stated: the spend succeeds when the witness is signed by the output
\* address's key over the second transaction's id and the claimed value
\* equals the output's value; it fails with UtxoInvalidSignature under
\* another key and with UtxoValueNotMatching(claimed, recorded) under
\* another value.
C8_RoundTrip ==
    (Called("apply_transaction") /\ SpendsCreated(last.base, last.args))
    => /\ (/\ SignedByOwner(last.base, last.args)
           /\ last.args.transaction.inputs[1].value = Recorded(last.base, last.args).value)
          => last.result.kind = "Ok"
       /\ RoundTripFailures(last.base, last.args)

\* C8: the spend succeeds when, besides the signature and the value, the
\* outputs of the second transaction are accepted (non-zero, of the ledger's
\* discrimination, credits succeeding) and have no entry yet under the second
\* transaction's id; the spent output is then gone.  The two failures are as
\* stated.
C8_RoundTripAcceptedOutputs ==
    (Called("apply_transaction") /\ SpendsCreated(last.base, last.args))
    => /\ (/\ SignedByOwner(last.base, last.args)
           /\ last.args.transaction.inputs[1].value = Recorded(last.base, last.args).value
           /\ OutputsWellFormed(last.base, last.args, Len(last.args.transaction.outputs))
           /\ CreditsSucceed(last.base, last.args, last.params,
                             Len(last.args.transaction.outputs))
           /\ ~StagedKeyPresent(last.base, last.args))
          => /\ last.result.kind = "Ok"
             /\ UtxoKey(last.args.transaction.inputs[1]) \notin DOMAIN ledger.utxos
       /\ RoundTripFailures(last.base, last.args)

\* The output of an applied transaction has been spent by a second one.
C8_Witness ==
    /\ Called("apply_transaction") /\ SpendsCreated(last.base, last.args)
    /\ SignedByOwner(last.base, last.args)
    /\ Len(last.args.transaction.outputs) > 0
    /\ last.result.kind = "Ok"
    /\ UtxoKey(last.args.transaction.inputs[1]) \notin DOMAIN ledger.utxos

\* ---- Outputs that are rejected.
TransactionCall == last.op \in {"apply_transaction", "apply_certificate"}

ZeroOutputs(stx) ==
    { j \in 1..Len(stx.transaction.outputs) : stx.transaction.outputs[j].value = ValueZero }
ForeignOutputs(B, stx) ==
    { j \in 1..Len(stx.transaction.outputs) :
        stx.transaction.outputs[j].address.discrimination # B.static_params.discrimination }

Least(S) == CHOOSE j \in S : \A k \in S : j <= k

\* The transactions carried by the messages of a block.
Carried(b) ==
    { b[i].body : i \in { j \in 1..Len(b) : b[j].tag \in {"Transaction", "Certificate"} } }

\* The inputs of stx verify, the input total is within Value, and the
\* outputs before output j are accepted.
ReachesOutput(B, stx, params, j) ==
    /\ WithinLimits(stx)
    /\ AllInputsVerify(B, stx)
    /\ InputTotal(stx) <= MaxValue
    /\ OutputsWellFormed(B, stx, j - 1)
    /\ CreditsSucceed(B, stx, params, j - 1)

NoNewLedger == last.result.kind # "Ok" /\ ledger = last.base

\* No call returns a new ledger for a transaction with an output of value zero.
ZeroOutputNeverApplied ==
    /\ (TransactionCall /\ ZeroOutputs(last.args) # {}) => NoNewLedger
    /\ (Called("apply_block") /\ \E stx \in Carried(last.args) : ZeroOutputs(stx) # {})
       => NoNewLedger

\* C9 as stated: zero-value outputs are always rejected, and when all inputs
\* verify the error is ZeroOutput carrying that output.
C9_ZeroOutput ==
    /\ ZeroOutputNeverApplied
    /\ (TransactionCall /\ ZeroOutputs(last.args) # {} /\ WithinLimits(last.args)
          /\ AllInputsVerify(last.base, last.args))
       => \E j \in ZeroOutputs(last.args) :
             last.result = Err(Error("ZeroOutput", <<last.args.transaction.outputs[j]>>))

\* C9: no call of apply_transaction, apply_certificate or apply_block returns
\* a new ledger for a transaction with an output of value zero; when all
\* inputs verify, the input total is within Value and the outputs before the
\* first zero output are accepted, the error is ZeroOutput carrying the first
\* zero output.
C9_FirstZeroOutput ==
    /\ ZeroOutputNeverApplied
    /\ (/\ TransactionCall /\ ZeroOutputs(last.args) # {}
        /\ ReachesOutput(last.base, last.args, last.params, Least(ZeroOutputs(last.args))))
       => last.result =
             Err(Error("ZeroOutput",
                       <<last.args.transaction.outputs[Least(ZeroOutputs(last.args))]>>))

\* A transaction spends an output, pays an accepted output and then an
\* output of value zero.
C9_Witness ==
    /\ Called("apply_transaction")
    /\ Len(last.args.transaction.inputs) > 0
    /\ ZeroOutputs(last.args) = {2}
    /\ ReachesOutput(last.base, last.args, last.params, 2)
    /\ RejectedWith("ZeroOutput")

\* Every entry of the UTXO set has the discrimination of the ledger.
UtxosOfLedgerDiscrimination ==
    \A k \in DOMAIN ledger.utxos :
        ledger.utxos[k].address.discrimination = ledger.static_params.discrimination

\* C10 as stated: every entry of the UTXO set of a reachable ledger has the
\* ledger's discrimination, and a transaction with an output of another
\* discrimination is rejected with InvalidDiscrimination.
C10_Discrimination ==
    /\ UtxosOfLedgerDiscrimination
    /\ (TransactionCall /\ ForeignOutputs(last.base, last.args) # {}
          /\ WithinLimits(last.args) /\ AllInputsVerify(last.base, last.args))
       => last.result = Err(Error("InvalidDiscrimination", <<>>))

\* C10: every entry of the UTXO set of a reachable ledger has the ledger's
\* discrimination; no call returns a new ledger for a transaction with an
\* output of another discrimination; the error is InvalidDiscrimination when
\* all inputs verify, the input total is within Value, the outputs before the
\* first such output are accepted and that output is not of value zero.
C10_FirstForeignOutput ==
    /\ UtxosOfLedgerDiscrimination
    /\ (TransactionCall /\ ForeignOutputs(last.base, last.args) # {}) => NoNewLedger
    /\ (Called("apply_block")
          /\ \E stx \in Carried(last.args) : ForeignOutputs(last.base, stx) # {})
       => NoNewLedger
    /\ (/\ TransactionCall /\ ForeignOutputs(last.base, last.args) # {}
        /\ ReachesOutput(last.base, last.args, last.params,
                         Least(ForeignOutputs(last.base, last.args)))
        /\ Least(ForeignOutputs(last.base, last.args)) \notin ZeroOutputs(last.args))
       => last.result = Err(Error("InvalidDiscrimination", <<>>))

\* A transaction spends an output and pays an output of another
\* discrimination, while the UTXO set holds entries.
C10_Witness ==
    /\ Called("apply_transaction")
    /\ Len(last.args.transaction.inputs) > 0
    /\ ForeignOutputs(last.base, last.args) # {}
    /\ ReachesOutput(last.base, last.args, last.params,
                     Least(ForeignOutputs(last.base, last.args)))
    /\ RejectedWith("InvalidDiscrimination")
    /\ DOMAIN ledger.utxos # {}

\* ---- The UTXO set and the history of applications.
\* C11: in every reachable ledger each entry of the UTXO set, keyed
\* (transaction id, index), is the output at that index of a transaction that
\* was applied successfully, carries that output's address and value, and
\* has not been used as an input by any transaction applied since.
C11_EntriesAreUnspentOutputs ==
    \A k \in DOMAIN ledger.utxos :
        /\ \E T \in applied :
              /\ k[1] = TransactionHash(T.transaction)
              /\ k[2] + 1 \in 1..Len(T.transaction.outputs)
              /\ T.transaction.outputs[k[2] + 1] = ledger.utxos[k]
        /\ [key |-> k, output |-> ledger.utxos[k]] \in unspent

\* Outputs were created, one of them was used as an input since, another is
\* still in the UTXO set.
C11_Witness ==
    /\ DOMAIN ledger.utxos # {}
    /\ \E k \in SpentKeys : k \notin DOMAIN ledger.utxos
    /\ \A k \in DOMAIN ledger.utxos : [key |-> k, output |-> ledger.utxos[k]] \in unspent

\* ---- The verification of one input.
\* Input i of stx is reached: the counts match and every earlier input verifies.
InputReached(B, stx, i) ==
    /\ WithinLimits(stx) /\ ArityMatches(stx)
    /\ \A j \in 1..(i - 1) : InputVerifies(B, stx, j)

\* The account of the account input i exists in B and can pay the input
\* after the debits of the earlier inputs.
DebitSucceeds(B, stx, i) ==
    /\ stx.transaction.inputs[i].input_ptr.account \in DOMAIN B.accounts
    /\ stx.transaction.inputs[i].value
          + SetSum([j \in EarlierFrom(stx, i, stx.transaction.inputs[i].input_ptr.account) |->
                       stx.transaction.inputs[j].value],
                   EarlierFrom(stx, i, stx.transaction.inputs[i].input_ptr.account))
          <= B.accounts[stx.transaction.inputs[i].input_ptr.account].value

\* The pairs (input, witness) of stx whose witness is of the wrong kind.
WrongKindPairs(stx) ==
    { i \in 1..Len(stx.transaction.inputs) :
        /\ i <= Len(stx.witnesses)
        /\ \/ IsUtxoInput(stx.transaction.inputs[i]) /\ stx.witnesses[i].tag = "Account"
           \/ ~IsUtxoInput(stx.transaction.inputs[i])
                 /\ stx.witnesses[i].tag \in {"Utxo", "OldUtxo"} }

\* C12: a witness of the wrong kind never authorizes a spend.  A UTXO input
\* that is reached with an Account witness fails with ExpectingUtxoWitness; an
\* account input that is reached with a Utxo or OldUtxo witness and whose
\* debit succeeds fails with ExpectingAccountWitness; no new ledger is
\* returned for a transaction with such a pair.
C12_WrongWitnessKind ==
    TransactionCall =>
        /\ WrongKindPairs(last.args) # {} => NoNewLedger
        /\ \A i \in WrongKindPairs(last.args) :
              InputReached(last.base, last.args, i) =>
                 /\ IsUtxoInput(last.args.transaction.inputs[i])
                    => last.result = Err(Error("ExpectingUtxoWitness", <<>>))
                 /\ (~IsUtxoInput(last.args.transaction.inputs[i])
                       /\ DebitSucceeds(last.base, last.args, i))
                    => last.result = Err(Error("ExpectingAccountWitness", <<>>))

\* An account input whose debit succeeds is reached, after a verified input,
\* with a Utxo witness.
C12_Witness ==
    /\ Called("apply_transaction")
    /\ \E i \in WrongKindPairs(last.args) :
          /\ i > 1
          /\ InputReached(last.base, last.args, i)
          /\ ~IsUtxoInput(last.args.transaction.inputs[i])
          /\ last.args.witnesses[i].tag = "Utxo"
          /\ DebitSucceeds(last.base, last.args, i)
    /\ RejectedWith("ExpectingAccountWitness")

(***************************************************************************)
(* Legacy inputs.  No operation of the ledger declares a legacy output     *)
(* (the declaration message is not implemented), so input_utxo_verify is   *)
(* applied to ledgers whose legacy UTXO set is drawn from a bounded set.   *)
(***************************************************************************)
\* legacy::OldAddress: the address derived from an extended public key.
OldAddress(xpub) == [key |-> xpub]

LegacyId == TransactionHash(Transaction(<<>>, <<>>, [cert |-> "Legacy", key |-> "none"]))
LegacyKeys == { <<LegacyId, 0>>, <<LegacyId, 1>> }
LegacyOutputs == { Output(OldAddress(k), v) : k \in Keys, v \in {1, 2} }

\* The legacy UTXO sets: every map from a set of legacy keys to legacy outputs.
LegacyStores ==
    UNION { [D -> LegacyOutputs] : D \in SUBSET LegacyKeys }

LegacyLedger(store) ==
    [LedgerNew(LedgerStaticParameters("Test"), SettingsNew) EXCEPT !.oldutxos = store]

\* The ids of the transactions that spend legacy outputs.
SpendingIds ==
    { TransactionHash(Transaction(<<InputFromUtxo(LegacyId, i, 1)>>, <<>>, NoExtra)) :
        i \in {0, 1} }

\* The pointers and the OldUtxo witnesses the verification is called with:
\* a witness carries an extended public key and a signature by some key over
\* some transaction id.
LegacyPointers == { UtxoPointer(LegacyId, i, v) : i \in {0, 1}, v \in {1, 2} }
LegacyWitnesses ==
    { WitnessOldUtxo(xpub, Sign(signer, TransactionIdMessage(tid))) :
        xpub \in Keys, signer \in Keys, tid \in SpendingIds }

InitLegacy ==
    /\ ledger \in { LegacyLedger(store) : store \in LegacyStores }
    /\ last = [op |-> "new", args |-> <<>>, params |-> LedgerParameters(TRUE),
               base |-> ledger, spent |-> {}, result |-> Ok(ledger)]
    /\ spent = {}
    /\ applied = {}
    /\ napplied = 0
    /\ unspent = {}

\* input_utxo_verify is called on the caller's ledger with an OldUtxo witness.
VerifyLegacy ==
    /\ CanCall
    /\ \E tid \in SpendingIds : \E utxo \in LegacyPointers : \E witness \in LegacyWitnesses :
          Return("input_utxo_verify",
                 [transaction_id |-> tid, utxo |-> utxo, witness |-> witness],
                 LedgerParameters(TRUE),
                 input_utxo_verify(ledger, tid, utxo, witness), <<>>)

NextLegacy == VerifyLegacy

SpecLegacy == InitLegacy /\ [][NextLegacy]_vars

\* The legacy output a call of input_utxo_verify refers to exists in the base
\* and the claimed value matches.
LegacyFound ==
    /\ Called("input_utxo_verify")
    /\ <<last.args.utxo.transaction_id, last.args.utxo.output_index>>
          \in DOMAIN last.base.oldutxos
    /\ last.base.oldutxos[<<last.args.utxo.transaction_id,
                            last.args.utxo.output_index>>].value = last.args.utxo.value

\* The witness's extended public key derives the address of the legacy output.
Derives ==
    last.base.oldutxos[<<last.args.utxo.transaction_id,
                         last.args.utxo.output_index>>].address = OldAddress(last.args.witness.xpub)

\* C13: when the referenced legacy output exists and the claimed value
\* matches, the input is rejected with OldUtxoInvalidPublicKey exactly when
\* the witness's extended public key does NOT derive the legacy output's
\* address; a key that derives it, with a valid signature over the
\* transaction id, is accepted and the legacy output is removed.
C13_LegacyPublicKey ==
    LegacyFound =>
        /\ (last.result.kind = "Err" /\ last.result.error.tag = "OldUtxoInvalidPublicKey")
           <=> ~Derives
        /\ (/\ Derives
            /\ last.args.witness.sig =
                  Sign(last.args.witness.xpub, TransactionIdMessage(last.args.transaction_id)))
           => /\ last.result.kind = "Ok"
              /\ <<last.args.utxo.transaction_id, last.args.utxo.output_index>>
                    \notin DOMAIN ledger.oldutxos

\* ---- Account inputs.
AccountOf(stx, i) == stx.transaction.inputs[i].input_ptr.account

\* The Account witness of input i is signed by the account over the
\* transaction id and the spending counter the account has when the input is
\* reached.
CorrectlySigned(B, stx, i) ==
    /\ stx.witnesses[i].tag = "Account"
    /\ stx.witnesses[i].sig =
          Sign(AccountOf(stx, i),
               TransactionIdSpendingCounter(
                   TransactionHash(stx.transaction),
                   B.accounts[AccountOf(stx, i)].counter
                      + Cardinality(EarlierFrom(stx, i, AccountOf(stx, i)))))

\* The account inputs of stx that are reached and claim more than their
\* account holds.
Overdrafts(B, stx) ==
    { i \in 1..Len(stx.transaction.inputs) :
        /\ InputReached(B, stx, i)
        /\ ~IsUtxoInput(stx.transaction.inputs[i])
        /\ AccountOf(stx, i) \in DOMAIN B.accounts
        /\ ~DebitSucceeds(B, stx, i) }

\* C14: a transaction with an account input whose claimed value exceeds the
\* account's balance fails with Error::Account carrying the store's
\* insufficient-funds error, whatever the witness, and the base ledger
\* (balance and spending counter of the account included) is unchanged.
C14_InsufficientFunds ==
    (TransactionCall /\ Overdrafts(last.base, last.args) # {})
    => /\ last.result = Err(Error("Account", <<"NonEnoughFunds">>))
       /\ ledger = last.base
       /\ \A i \in Overdrafts(last.base, last.args) :
             ledger.accounts[AccountOf(last.args, i)]
                = last.base.accounts[AccountOf(last.args, i)]

\* An account input with a correctly signed Account witness claims more than
\* the account holds.
C14_Witness ==
    /\ Called("apply_transaction")
    /\ \E i \in Overdrafts(last.base, last.args) : CorrectlySigned(last.base, last.args, i)
    /\ RejectedWith("Account")

\* The spending counter the account of input i has when the input is reached.
CounterAt(B, stx, i) ==
    B.accounts[AccountOf(stx, i)].counter
       + Cardinality(EarlierFrom(stx, i, AccountOf(stx, i)))

\* The account inputs of stx that are reached, whose debit succeeds, and whose
\* Account witness is signed by the account over the transaction id and an
\* earlier value of the spending counter.
StaleWitnesses(B, stx) ==
    { i \in 1..Len(stx.transaction.inputs) :
        /\ InputReached(B, stx, i)
        /\ ~IsUtxoInput(stx.transaction.inputs[i])
        /\ DebitSucceeds(B, stx, i)
        /\ stx.witnesses[i].tag = "Account"
        /\ \E c \in 0..(CounterAt(B, stx, i) - 1) :
              stx.witnesses[i].sig =
                 Sign(AccountOf(stx, i),
                      TransactionIdSpendingCounter(TransactionHash(stx.transaction), c)) }

\* C15: an Account witness verifies only if it signs (transaction id, the
\* spending counter of the account before this input's debit): a witness
\* signed over an earlier counter value fails with AccountInvalidSignature
\* even when the balance is sufficient, be it on a transaction from the
\* account submitted after one was applied or on a second input from the
\* account in the same transaction.
C15_CounterBinding ==
    TransactionCall =>
        /\ (last.result.kind = "Ok" /\ WithinLimits(last.args)) =>
              \A i \in 1..Len(last.args.transaction.inputs) :
                  ~IsUtxoInput(last.args.transaction.inputs[i])
                  => CorrectlySigned(last.base, last.args, i)
        /\ \A i \in StaleWitnesses(last.base, last.args) :
              /\ last.result = Err(Error("AccountInvalidSignature",
                                         <<AccountOf(last.args, i), last.args.witnesses[i]>>))
              /\ ledger = last.base

\* A transaction from an account that was applied is submitted again as it
\* was: the balance suffices, the witness is signed over the earlier counter.
C15_Witness ==
    /\ Called("apply_transaction")
    /\ last.args \in applied
    /\ 1 \in StaleWitnesses(last.base, last.args)
    /\ RejectedWith("AccountInvalidSignature")

\* ---- Pay-to-account outputs.
\* The pay-to-account outputs of stx that are reached (inputs verified,
\* earlier outputs accepted), are non-zero and of the ledger's discrimination.
CreditsReached(B, stx, params) ==
    { j \in 1..Len(stx.transaction.outputs) :
        /\ ~IsUtxoOutput(stx.transaction.outputs[j])
        /\ ReachesOutput(B, stx, params, j)
        /\ OutputsWellFormed(B, stx, j) }

\* The accounts of L are those of B after the debits and the credits of stx:
\* an account of B holds its balance minus the debits plus the credits, an
\* account that B does not have exists when stx credits it and then holds
\* the credits, with a spending counter of zero.
AccountsCredited(B, L, stx) ==
    \A a \in Keys :
        LET credits == AccountCredits(stx, a, Len(stx.transaction.outputs))
        IN IF a \in DOMAIN B.accounts
           THEN /\ a \in DOMAIN L.accounts
                /\ L.accounts[a].value = B.accounts[a].value - AccountDebits(stx, a) + credits
           ELSE IF CreditsOf(stx, a, Len(stx.transaction.outputs)) # {}
           THEN /\ a \in DOMAIN L.accounts
                /\ L.accounts[a] = [value |-> credits, counter |-> 0]
           ELSE a \notin DOMAIN L.accounts

\* C16: pay-to-account outputs.  In an applied transaction an existing
\* destination account has its balance increased by the output value, and a
\* destination account that does not exist is created, allow_account_creation
\* being true, with the output value as its balance; when the account does
\* not exist and allow_account_creation is false, the application fails with
\* Error::Account carrying the non-existent-account error and no account is
\* created.
C16_PayToAccount ==
    (TransactionCall /\ WithinLimits(last.args)) =>
        /\ last.result.kind = "Ok" =>
              /\ AccountsCredited(last.base, last.result.val, last.args)
              /\ \A a \in Keys \ DOMAIN last.base.accounts :
                    CreditsOf(last.args, a, Len(last.args.transaction.outputs)) # {}
                    => last.params.allow_account_creation
        /\ \A j \in CreditsReached(last.base, last.args, last.params) :
              (/\ last.args.transaction.outputs[j].address.key \notin DOMAIN last.base.accounts
               /\ ~last.params.allow_account_creation)
              => /\ last.result = Err(Error("Account", <<"NonExistent">>))
                 /\ ledger = last.base
                 /\ last.args.transaction.outputs[j].address.key \notin DOMAIN ledger.accounts

\* A transaction that spends an input and pays an account that holds a
\* balance has been applied.
C16_Witness ==
    /\ Called("apply_transaction")
    /\ last.result.kind = "Ok"
    /\ Len(last.args.transaction.inputs) > 0
    /\ \E j \in CreditsReached(last.base, last.args, last.params) :
          /\ last.args.transaction.outputs[j].address.key \in DOMAIN last.base.accounts
          /\ last.base.accounts[last.args.transaction.outputs[j].address.key].value > 0
    /\ AccountsCredited(last.base, ledger, last.args)

\* ---- Certificates.
\* The certificate messages of the block b whose enclosing transaction
\* applies to the snapshot the message is reached with, while the delegation
\* state of that snapshot rejects the certificate.
RejectedCertificates(base, params, b) ==
    { i \in 1..Len(b) :
        /\ b[i].tag = "Certificate"
        /\ Intermediate(base, params, b, i - 1).kind = "Ok"
        /\ apply_transaction(Intermediate(base, params, b, i - 1).val, b[i].body, params).kind = "Ok"
        /\ DelegationApply(Intermediate(base, params, b, i - 1).val.delegation,
                           b[i].body.transaction.extra).kind = "Err" }

\* C17: apply_certificate applies the enclosing transaction first and the
\* certificate second.  If the transaction fails, its error is returned; if
\* the transaction succeeds and the delegation state rejects the
\* certificate, the result is Error::Delegation and no ledger with the
\* transaction's effects is returned (through apply_block the base stays
\* unchanged); when both succeed the returned ledger has both effects.
C17_CertificateAfterTransaction ==
    /\ Called("apply_certificate") =>
          LET t == apply_transaction(last.base, last.args, last.params)
              d == DelegationApply(last.base.delegation, last.args.transaction.extra)
          IN IF t.kind # "Ok"
             THEN last.result = t /\ ledger = last.base
             ELSE IF d.kind = "Err"
             THEN /\ last.result = Err(Error("Delegation", <<d.error>>))
                  /\ ledger = last.base
             ELSE /\ last.result = Ok([t.val EXCEPT !.delegation = d.val])
                  /\ ledger = [t.val EXCEPT !.delegation = d.val]
    /\ (Called("apply_block")
          /\ RejectedCertificates(last.base, last.params, last.args) # {})
       => /\ last.result.kind = "Err"
          /\ ledger = last.base

\* The enclosing transaction spends an output and applies, the delegation
\* state rejects the certificate.
C17_Witness ==
    /\ Called("apply_certificate")
    /\ Len(last.args.transaction.inputs) > 0
    /\ apply_transaction(last.base, last.args, last.params).kind = "Ok"
    /\ apply_transaction(last.base, last.args, last.params).val.utxos # last.base.utxos
    /\ RejectedWith("Delegation")

\* ---- Legacy declarations in a block.
Declarations(b) == { i \in 1..Len(b) : b[i].tag = "OldUtxoDeclaration" }

\* C18: a block with a legacy-UTXO-declaration message is never applied.
\* apply_block returns no new ledger for it and the caller's ledger is the
\* base, so that no message after the declaration is applied; when the
\* messages before the first declaration apply, the call fails at the
\* declaration.
C18_DeclarationFails ==
    (Called("apply_block") /\ Declarations(last.args) # {})
    => /\ NoNewLedger
       /\ Intermediate(last.base, last.params, last.args,
                       Least(Declarations(last.args)) - 1).kind = "Ok"
          => last.result = Panic("unimplemented")

\* A block whose first message applies and changes the UTXO set and whose
\* second message is a declaration.
C18_Witness ==
    /\ Called("apply_block") /\ Declarations(last.args) = {2}
    /\ Intermediate(last.base, last.params, last.args, 1).kind = "Ok"
    /\ Intermediate(last.base, last.params, last.args, 1).val.utxos # last.base.utxos
    /\ NoNewLedger

\* ---- Failures that are not returned.
\* C19: every rejection by apply_block, apply_transaction and
\* apply_certificate is a returned Err(Error): no message or transaction
\* makes the engine abort or panic.
C19_ErrorsAreReturned ==
    (Called("apply_block") \/ TransactionCall) => last.result.kind \in {"Ok", "Err"}

\* ---- The limits of a transaction.
\* C20: the bound of at most 254 inputs, 254 outputs and 254 witnesses is
\* enforced.  apply_transaction returns no new ledger for a transaction that
\* exceeds one of the three bounds; it stops at the bound, before an input is
\* verified or a component of the ledger is changed, and it does not stop
\* there for a transaction within the bounds.
C20_LimitsEnforced ==
    Called("apply_transaction") =>
        IF WithinLimits(last.args)
        THEN last.result # Panic("assert")
        ELSE /\ last.result = Panic("assert")
             /\ ledger = last.base

\* A transaction of 255 outputs that is otherwise acceptable has been
\* stopped, on a ledger that holds outputs.
C20_Witness ==
    /\ Called("apply_transaction")
    /\ Len(last.args.transaction.outputs) = MaxArity
    /\ ArityMatches(last.args)
    /\ OutputsWellFormed(last.base, last.args, MaxArity)
    /\ last.result.kind # "Ok"
    /\ ledger = last.base
    /\ DOMAIN ledger.utxos # {}

\* ---- Totals that overflow.
InputsOverflow(stx) == InputTotal(stx) > MaxValue
OutputsOverflow(stx) == OutputTotal(stx) > MaxValue

\* C21: overflow is a distinct error from imbalance.  For a transaction whose
\* inputs all verify: if the sum of the declared input values overflows the
\* call fails with UtxoInputsTotal; if the sum of the declared output values
\* overflows it fails with UtxoOutputsTotal; an overflowing total is never
\* reported as NotBalanced and never lets the transaction succeed.
C21_OverflowDistinct ==
    (Called("apply_transaction") /\ WithinLimits(last.args)
       /\ AllInputsVerify(last.base, last.args))
    => /\ InputsOverflow(last.args) => RejectedWith("UtxoInputsTotal")
       /\ (~InputsOverflow(last.args) /\ OutputsOverflow(last.args))
             => RejectedWith("UtxoOutputsTotal")
       /\ (InputsOverflow(last.args) \/ OutputsOverflow(last.args))
             => /\ last.result.kind # "Ok"
                /\ ~RejectedWith("NotBalanced")

\* ---- The order of the messages of a block.
\* A block of two transaction messages, and its two transactions.
TwoTransactions(b) ==
    /\ Len(b) = 2
    /\ b[1].tag = "Transaction" /\ b[2].tag = "Transaction"

\* stx has one input, a reference to the key k, with one Utxo witness, and
\* one non-zero output of the ledger's discrimination that becomes a UTXO
\* under a key that B does not hold.
SpendsKey(B, stx, k) ==
    /\ Len(stx.transaction.inputs) = 1 /\ Len(stx.witnesses) = 1
    /\ Len(stx.transaction.outputs) = 1
    /\ IsUtxoInput(stx.transaction.inputs[1])
    /\ UtxoKey(stx.transaction.inputs[1]) = k
    /\ stx.witnesses[1].tag = "Utxo"
    /\ OutputsWellFormed(B, stx, 1)
    /\ IsUtxoOutput(stx.transaction.outputs[1])
    /\ OutputKey(stx, 1) \notin DOMAIN B.utxos

\* t2 spends the output that t1 creates, which B does not hold: it claims the
\* value of the output and is signed by the key of the output over its id.
SpendsOutputOf(B, t1, t2) ==
    /\ SpendsKey(B, t2, OutputKey(t1, 1))
    /\ OutputKey(t1, 1) \notin DOMAIN B.utxos
    /\ OutputKey(t2, 1) # OutputKey(t1, 1)
    /\ t2.transaction.inputs[1].value = t1.transaction.outputs[1].value
    /\ t2.witnesses[1].sig = Sign(t1.transaction.outputs[1].address.key,
                                  TransactionIdMessage(TransactionHash(t2.transaction)))

\* t1 spends an output of B and creates one.
SpendsFrom(B, t1) ==
    /\ SpendsOneToOne(B, t1)
    /\ OutputKey(t1, 1) \notin DOMAIN B.utxos

\* L is B without the output t1 spends, without the output of t1 that t2
\* spends, and with the output of t2.
BothApplied(B, L, t1, t2) ==
    /\ DOMAIN L.utxos = (DOMAIN B.utxos \ {UtxoKey(t1.transaction.inputs[1])})
                           \cup {OutputKey(t2, 1)}
    /\ L.utxos[OutputKey(t2, 1)] = t2.transaction.outputs[1]
    /\ \A k \in DOMAIN L.utxos \ {OutputKey(t2, 1)} : L.utxos[k] = B.utxos[k]

\* C22: apply_block folds the messages from left to right, each message
\* seeing the effects of the messages before it.  A block [T1, T2] in which
\* T1 spends an output of the ledger and T2 spends the output T1 creates
\* succeeds, and its ledger holds the output of T2 and neither spent output;
\* the block [T2, T1] fails with UtxoError; a block in which two transactions
\* spend the same output fails with UtxoError at the second one; a failed
\* block leaves the ledger unchanged.
C22_LeftToRight ==
    (Called("apply_block") /\ TwoTransactions(last.args))
    => /\ (SpendsFrom(last.base, last.args[1].body)
            /\ SpendsOutputOf(last.base, last.args[1].body, last.args[2].body))
          => /\ last.result.kind = "Ok"
             /\ ledger = last.result.val
             /\ BothApplied(last.base, ledger, last.args[1].body, last.args[2].body)
       /\ SpendsOutputOf(last.base, last.args[2].body, last.args[1].body)
          => RejectedWith("UtxoError")
       /\ (SpendsFrom(last.base, last.args[1].body)
            /\ SpendsKey(last.base, last.args[2].body,
                         UtxoKey(last.args[1].body.transaction.inputs[1])))
          => /\ RejectedWith("UtxoError")
             /\ Intermediate(last.base, last.params, last.args, 1).kind = "Ok"

\* A block [T1, T2] of two balanced transactions, T2 spending the output of
\* T1, has been applied.
C22_Witness ==
    /\ Called("apply_block") /\ TwoTransactions(last.args)
    /\ SpendsFrom(last.base, last.args[1].body)
    /\ SpendsOutputOf(last.base, last.args[1].body, last.args[2].body)
    /\ InputTotal(last.args[1].body) = OutputTotal(last.args[1].body)
    /\ InputTotal(last.args[2].body) = OutputTotal(last.args[2].body)
    /\ last.result.kind = "Ok"
    /\ BothApplied(last.base, ledger, last.args[1].body, last.args[2].body)

\* ---- The order of the validation steps.
\* The UTXO input i is listed by an earlier input of stx.
TakenEarlier(stx, i) ==
    \E j \in 1..(i - 1) :
        /\ IsUtxoInput(stx.transaction.inputs[j])
        /\ UtxoKey(stx.transaction.inputs[j]) = UtxoKey(stx.transaction.inputs[i])

\* The error of a UTXO input with a legacy witness: lookup in the legacy
\* set, then value, then public key, then signature.
LegacyInputError(B, stx, i) ==
    IF UtxoKey(stx.transaction.inputs[i]) \notin DOMAIN B.oldutxos
    THEN "UtxoError"
    ELSE IF stx.transaction.inputs[i].value
               # B.oldutxos[UtxoKey(stx.transaction.inputs[i])].value
    THEN "UtxoValueNotMatching"
    ELSE IF stx.witnesses[i].xpub
               # B.oldutxos[UtxoKey(stx.transaction.inputs[i])].address.key
    THEN "OldUtxoInvalidPublicKey"
    ELSE "OldUtxoInvalidSignature"

\* The error of the UTXO input i when it does not verify: witness kind, then
\* lookup, then value match, then signature.
UtxoInputError(B, stx, i) ==
    IF stx.witnesses[i].tag = "Account" THEN "ExpectingUtxoWitness"
    ELSE IF stx.witnesses[i].tag = "OldUtxo" THEN LegacyInputError(B, stx, i)
    ELSE IF UtxoKey(stx.transaction.inputs[i]) \notin DOMAIN B.utxos
            \/ TakenEarlier(stx, i)
    THEN "UtxoError"
    ELSE IF stx.transaction.inputs[i].value
               # B.utxos[UtxoKey(stx.transaction.inputs[i])].value
    THEN "UtxoValueNotMatching"
    ELSE "UtxoInvalidSignature"

\* The error of the account input i when it does not verify: debit, then
\* witness kind, then signature.
AccountInputError(B, stx, i) ==
    IF ~DebitSucceeds(B, stx, i) THEN "Account"
    ELSE IF stx.witnesses[i].tag # "Account" THEN "ExpectingAccountWitness"
    ELSE "AccountInvalidSignature"

\* The inputs of stx that do not verify.
FailingInputs(B, stx) ==
    { i \in 1..Len(stx.transaction.inputs) : ~InputVerifies(B, stx, i) }

\* The error of the arity and of the inputs in list order, "none" without.
InputStepError(B, stx) ==
    IF ~ArityMatches(stx) THEN "NotEnoughSignatures"
    ELSE IF FailingInputs(B, stx) = {} THEN "none"
    ELSE IF IsUtxoInput(stx.transaction.inputs[Least(FailingInputs(B, stx))])
    THEN UtxoInputError(B, stx, Least(FailingInputs(B, stx)))
    ELSE AccountInputError(B, stx, Least(FailingInputs(B, stx)))

\* The error of the totals: the two overflows, then the balance.
TotalsStepError(stx) ==
    IF InputsOverflow(stx) THEN "UtxoInputsTotal"
    ELSE IF OutputsOverflow(stx) THEN "UtxoOutputsTotal"
    ELSE IF InputTotal(stx) # OutputTotal(stx) THEN "NotBalanced"
    ELSE "none"

\* The outputs of stx that are rejected: zero, of another discrimination, or
\* paid to an account that cannot be credited.
FailingOutputs(B, stx, params) ==
    { j \in 1..Len(stx.transaction.outputs) :
        \/ stx.transaction.outputs[j].value = ValueZero
        \/ stx.transaction.outputs[j].address.discrimination
              # B.static_params.discrimination
        \/ ~CreditsSucceed(B, stx, params, j) }

\* The error of the outputs in index order (zero value before discrimination
\* before account credit), then of the insertion, "none" without.
OutputStepError(B, stx, params) ==
    IF FailingOutputs(B, stx, params) # {}
    THEN IF stx.transaction.outputs[Least(FailingOutputs(B, stx, params))].value = ValueZero
         THEN "ZeroOutput"
         ELSE IF stx.transaction.outputs[Least(FailingOutputs(B, stx, params))].address.discrimination
                    # B.static_params.discrimination
         THEN "InvalidDiscrimination"
         ELSE "Account"
    ELSE IF StagedKeyPresent(B, stx) THEN "UtxoError"
    ELSE "none"

\* The error of the earliest step that stx violates on B, "none" without.
EarliestError(B, stx, params) ==
    IF InputStepError(B, stx) # "none" THEN InputStepError(B, stx)
    ELSE IF TotalsStepError(stx) # "none" THEN TotalsStepError(stx)
    ELSE OutputStepError(B, stx, params)

\* C23: error precedence follows the validation steps.  When a transaction
\* within the limits violates one or several rules, the returned error is
\* that of the earliest step, in the order arity, inputs in list order (UTXO
\* input: witness kind, lookup, value match, signature; account input: debit,
\* witness kind, signature), totals and balance, outputs in index order (zero
\* value, discrimination, account credit), UTXO insertion.
C23_ErrorPrecedence ==
    (Called("apply_transaction") /\ WithinLimits(last.args)
       /\ EarliestError(last.base, last.args, last.params) # "none")
    => RejectedWith(EarliestError(last.base, last.args, last.params))

\* ---- The value held by the ledger.
\* The sum of the UTXO values, the legacy UTXO values and the account balances.
TotalValue(L) ==
    LedgerTotal(L)
    + SetSum([k \in DOMAIN L.oldutxos |-> L.oldutxos[k].value], DOMAIN L.oldutxos)

\* C24: value is conserved (fees are zero).  Along any sequence of successful
\* apply_transaction, apply_certificate and apply_block calls the sum of all
\* UTXO values, legacy UTXO values and account balances stays equal to its
\* initial value, that of the ledger returned by Ledger::new; no transaction,
\* one with zero inputs and zero witnesses included, adds outputs or account
\* credits worth more than the inputs it consumes.
C24_ValueConserved ==
    /\ TotalValue(ledger) = TotalValue(LedgerNew(LedgerStaticParameters("Test"), SettingsNew))
    /\ (last.op \in {"apply_transaction", "apply_certificate", "apply_block"}
          /\ last.result.kind = "Ok")
       => TotalValue(ledger) = TotalValue(last.base)

\* ---- The addresses of the UTXO set.
\* Every entry of the UTXO set of L is paid to a Single or Group address, and
\* its address has a public key.
SpendableEntries(L) ==
    \A k \in DOMAIN L.utxos :
        /\ L.utxos[k].address.kind \in {"Single", "Group"}
        /\ public_key(L.utxos[k].address).some

\* C25: in every ledger reachable from Ledger::new by successful
\* applications, and in every intermediate snapshot of a block, the UTXO set
\* holds only entries whose address kind is Single or Group, never Account;
\* the address of every UTXO found by input_utxo_verify has a public key and
\* no call stops at the unwrap of public_key().
C25_UtxosHavePublicKeys ==
    /\ SpendableEntries(ledger)
    /\ last.result # Panic("unwrap")
    /\ Called("apply_block")
       => \A i \in 1..Len(last.args) :
             Intermediate(last.base, last.params, last.args, i).kind = "Ok"
                => SpendableEntries(Intermediate(last.base, last.params, last.args, i).val)

\* A transaction with a verified UTXO input has been applied to a ledger
\* that earlier pay-to-account outputs have credited, and it pays an account
\* and a Single address: the account is credited and only the Single output
\* has entered the UTXO set.
C25_Witness ==
    /\ Called("apply_transaction") /\ WithinLimits(last.args)
    /\ last.result.kind = "Ok"
    /\ DOMAIN last.base.accounts # {}
    /\ \E i \in 1..Len(last.args.transaction.inputs) :
          IsUtxoInput(last.args.transaction.inputs[i])
          /\ InputVerifies(last.base, last.args, i)
    /\ \E j \in 1..Len(last.args.transaction.outputs) :
          /\ ~IsUtxoOutput(last.args.transaction.outputs[j])
          /\ OutputKey(last.args, j) \notin DOMAIN ledger.utxos
    /\ \E j \in 1..Len(last.args.transaction.outputs) :
          /\ IsUtxoOutput(last.args.transaction.outputs[j])
          /\ OutputKey(last.args, j) \in DOMAIN ledger.utxos
    /\ SpendableEntries(ledger)

\* ---- Account inputs of accounts that do not exist.
\* The account inputs of stx that are reached and name an account that B
\* does not hold.
AbsentAccountInputs(B, stx) ==
    { i \in 1..Len(stx.transaction.inputs) :
        /\ InputReached(B, stx, i)
        /\ ~IsUtxoInput(stx.transaction.inputs[i])
        /\ AccountOf(stx, i) \notin DOMAIN B.accounts }

\* C26: account creation is not symmetric for inputs.  An account input that
\* is reached and names an account absent from the account map fails with
\* Error::Account carrying the non-existent-account error, whether
\* allow_account_creation is true or false and whatever the witness is; the
\* ledger is unchanged and no account is created.
C26_AbsentAccountInput ==
    (TransactionCall /\ AbsentAccountInputs(last.base, last.args) # {})
    => /\ last.result = Err(Error("Account", <<"NonExistent">>))
       /\ ledger = last.base
       /\ DOMAIN ledger.accounts = DOMAIN last.base.accounts

\* With account creation allowed, an input of an absent account that carries
\* an Account witness signed by the account over the transaction id and the
\* counter 0 has been rejected, on a ledger that holds another account.
C26_Witness ==
    /\ Called("apply_transaction")
    /\ last.params.allow_account_creation
    /\ \E i \in AbsentAccountInputs(last.base, last.args) :
          /\ last.args.witnesses[i].tag = "Account"
          /\ last.args.witnesses[i].sig =
                Sign(AccountOf(last.args, i),
                     TransactionIdSpendingCounter(TransactionHash(last.args.transaction), 0))
    /\ DOMAIN last.base.accounts # {}
    /\ last.result = Err(Error("Account", <<"NonExistent">>))
    /\ DOMAIN ledger.accounts = DOMAIN last.base.accounts

====
